---- MODULE Spec2Model ----
(***************************************************************************)
(* Session manager (auth_fully_automated.py), callback listener and order  *)
(* engine (trading.py, logger.py, auth_utils.py) of kite-langchain.        *)
(*                                                                         *)
(* Caller threads run the public operations step by step; the callback     *)
(* listener's request thread runs do_GET / exchange_request_token.  The    *)
(* remote brokerage, the browser, the file system and the clock are the    *)
(* environment: each of their answers is chosen with \E where the code     *)
(* asks for it.                                                            *)
(***************************************************************************)
EXTENDS Integers, Sequences, FiniteSets, TLC

(***************************************************************************)
(* Bounds of the model.                                                    *)
(***************************************************************************)
MaxTime == 8        \* the clock stops advancing after this many hours
TickHours == 8       \* hours the clock advances in one step
MaxLog == 1          \* operations start only while the log is shorter

(***************************************************************************)
(* Program constants.                                                      *)
(***************************************************************************)
ValidityHours == 8   \* timedelta(hours=8)
MinTokenLen == 10    \* len(request_token) < 10

(***************************************************************************)
(* Optional values: Python's None is the empty sequence.                   *)
(***************************************************************************)
NONE == <<>>
Some(x) == <<x>>
IsNone(o) == o = <<>>
Val(o) == o[1]

Callers == {"c1", "c2"}

(***************************************************************************)
(* Texts are sequences of characters, so that substring and character      *)
(* tests are computed and not assumed.                                     *)
(***************************************************************************)
UpperToLower ==
    [ch \in {"A", "E", "H", "K", "N", "O", "T", "U"} |->
        CASE ch = "A" -> "a" [] ch = "E" -> "e" [] ch = "H" -> "h"
          [] ch = "K" -> "k" [] ch = "N" -> "n" [] ch = "O" -> "o"
          [] ch = "T" -> "t" [] ch = "U" -> "u"]

LowerChar(ch) == IF ch \in DOMAIN UpperToLower THEN UpperToLower[ch] ELSE ch

\* str.lower()
Lower(text) == [i \in 1..Len(text) |-> LowerChar(text[i])]

\* pat in text
Contains(text, pat) ==
    \E i \in 0..(Len(text) - Len(pat)) :
        \A j \in 1..Len(pat) : text[i + j] = pat[j]

TOKEN_MARK == <<"t", "o", "k", "e", "n">>
AUTH_MARK == <<"a", "u", "t", "h">>

\* auth_utils.is_token_expired_error
is_token_expired_error(error) ==
    LET error_str == Lower(error)
    IN  Contains(error_str, TOKEN_MARK) \/ Contains(error_str, AUTH_MARK)

\* error texts the remote place_order raises
ERR_TOKEN == <<"b", "a", "d", " ", "T", "O", "K", "E", "N">>
ERR_AUTH == <<"U", "n", "a", "u", "t", "h">>
ERR_NET == <<"t", "i", "m", "e", "o", "u", "t">>
ERR_NEAR == <<"t", "o", "k", "e", " ", "a", "u", "t">>
RemoteErrors == {ERR_TOKEN, ERR_AUTH, ERR_NET, ERR_NEAR}

\* error texts a failing write of logs/order.log raises
ERR_DISK == <<"d", "i", "s", "k">>
ERR_LOG_AUTH == <<"n", "o", "t", " ", "a", "u", "t", "h">>
LogErrors == {ERR_DISK, ERR_LOG_AUTH}

\* texts of the exceptions the session manager raises itself
EXC_EXPIRED == <<"A", "c", "c", "e", "s", "s", " ", "t", "o", "k", "e", "n">>
EXC_FAILED == <<"A", "u", "t", "o", "m", "a", "t", "e", "d">>
EXC_DOCKER == <<"D", "o", "c", "k", "e", "r">>
EXC_BROWSER == <<"b", "r", "o", "w", "s", "e", "r">>

(***************************************************************************)
(* Order requests (trading.place_order's parameters).  A quantity carries  *)
(* its Python type: int |-> FALSE is a float such as 2.0.                  *)
(***************************************************************************)
Quantities == {[int |-> TRUE, v |-> -1], [int |-> TRUE, v |-> 0],
               [int |-> TRUE, v |-> 1], [int |-> FALSE, v |-> 2]}
Prices == {NONE, Some(-5), Some(0), Some(100)}
Exchanges == {"NSE", "BSE", "NFO", "CDS", "MCX"}

AllRequests ==
    [tradingsymbol : {"", "INFY"},
     quantity : Quantities,
     transaction_type : {"BUY", "SELL", "HOLD"},
     exchange : {"NSE", "MCX", "LSE"},
     order_type : {"MARKET", "LIMIT", "SL", "SL-M"},
     price : Prices,
     trigger_price : Prices]

Req(sym, q, side, ot, p, tp) ==
    [tradingsymbol |-> sym, quantity |-> [int |-> TRUE, v |-> q],
     transaction_type |-> side, exchange |-> "NSE", order_type |-> ot,
     price |-> p, trigger_price |-> tp]

\* the requests of the full system's runs
Requests ==
    {Req("INFY", 1, "BUY", "MARKET", NONE, NONE),
     Req("INFY", 0, "BUY", "MARKET", NONE, NONE),
     Req("INFY", -1, "SELL", "MARKET", NONE, NONE),
     Req("INFY", 1, "BUY", "LIMIT", NONE, NONE)}

NoReq == Req("", 0, "", "", NONE, NONE)

\* trading.py:100
ValidSymbol(tradingsymbol) == tradingsymbol # ""

\* trading.py:107 with "quantity < 0" for "quantity <= 0"
ValidQuantity_ZeroAllowed(quantity) == quantity.int /\ ~(quantity.v < 0)

\* trading.py:107
ValidQuantity(quantity) == quantity.int /\ ~(quantity.v <= 0)

\* trading.py:128 with the "price is None" test lost
ValidPrice_NoneAllowed(order_type, price) ==
    ~(order_type \in {"LIMIT", "SL"} /\ ~IsNone(price) /\ Val(price) <= 0)

\* trading.py:128
ValidPrice(order_type, price) ==
    ~(order_type \in {"LIMIT", "SL"} /\ (IsNone(price) \/ Val(price) <= 0))

\* trading.py:135
ValidTrigger(order_type, trigger_price) ==
    ~(order_type \in {"SL", "SL-M"}
        /\ (IsNone(trigger_price) \/ Val(trigger_price) <= 0))

\* trading.py:99-140: the first failing check names the error, "" when none
ValidationError(req) ==
    IF ~ValidSymbol(req.tradingsymbol) THEN "Invalid trading symbol"
    ELSE IF ~ValidQuantity(req.quantity) THEN "Invalid quantity"
    ELSE IF req.transaction_type \notin {"BUY", "SELL"}
        THEN "Invalid transaction type"
    ELSE IF req.exchange \notin Exchanges THEN "Invalid exchange"
    ELSE IF ~ValidPrice(req.order_type, req.price) THEN "Invalid price"
    ELSE IF ~ValidTrigger(req.order_type, req.trigger_price)
        THEN "Invalid trigger price"
    ELSE ""

(***************************************************************************)
(* The persisted token record, data/kite_tokens.json.                      *)
(***************************************************************************)
AccessTokens == {"atA", "atB"}

TokenRecord(access_token, refresh_token, expires_at, generated_at) ==
    [access_token |-> access_token, refresh_token |-> refresh_token,
     expires_at |-> expires_at, generated_at |-> generated_at]

\* records found on disk when the process starts: none, one written by an
\* earlier session, one with an empty token, one without an expiry
InitialTokenFiles ==
    {NONE,
     Some(TokenRecord("atA", NONE, Some(ValidityHours), 0)),
     Some(TokenRecord("", NONE, Some(ValidityHours), 0)),
     Some(TokenRecord("atB", Some("rfB"), NONE, 0))}

\* AutoAuthConfig.save_tokens
save_tokens(access_token, refresh_token, expires_at, clock) ==
    Some(TokenRecord(access_token, refresh_token, expires_at, clock))

\* is_token_valid, lines 459-468, with ">" for ">=" in the expiry test
TokenLive_Grace(tokens, clock) ==
    /\ ~IsNone(tokens)
    /\ Val(tokens).access_token # ""
    /\ ~(~IsNone(Val(tokens).expires_at)
            /\ clock > Val(Val(tokens).expires_at))

\* is_token_valid, lines 459-468: the checks made before the live probe
TokenLive(tokens, clock) ==
    /\ ~IsNone(tokens)
    /\ Val(tokens).access_token # ""
    /\ ~(~IsNone(Val(tokens).expires_at)
            /\ clock >= Val(Val(tokens).expires_at))

\* answers of the remote profile() call
Probes == {"profile", "empty", "error"}

\* FullyAutomatedKiteAuth.is_token_valid: its result
is_token_valid(tokens, clock, probe) ==
    TokenLive(tokens, clock) /\ probe = "profile"

\* is_token_valid, line 471: the access token the client is bound to afterwards
BoundAfterValidation(tokens, clock, bound) ==
    IF TokenLive(tokens, clock) THEN Some(Val(tokens).access_token) ELSE bound

(***************************************************************************)
(* The callback listener's requests.                                       *)
(***************************************************************************)
AlnumChars == {"a", "b", "c", "d", "e", "1", "2", "3", "4", "5", "6"}

RT_OK10 == <<"a", "b", "c", "d", "e", "1", "2", "3", "4", "5">>
RT_OK11 == <<"a", "b", "c", "d", "e", "1", "2", "3", "4", "5", "6">>
RT_LEN5 == <<"a", "b", "c", "1", "2">>
RT_LEN9 == <<"a", "b", "c", "d", "e", "1", "2", "3", "4">>
RT_DASH == <<"a", "b", "c", "d", "e", "-", "2", "3", "4", "5">>

\* str.isalnum()
isalnum(text) == Len(text) > 0 /\ \A i \in 1..Len(text) : text[i] \in AlnumChars

AllCallbacks ==
    [path : {"/callback", "/other"},
     request_token : {NONE, Some(RT_OK10), Some(RT_OK11), Some(RT_LEN5),
                      Some(RT_LEN9), Some(RT_DASH)},
     action : {NONE, Some("login"), Some("logout")},
     status : {NONE, Some("success"), Some("failed")}]

Callback(tok, action) ==
    [path |-> "/callback", request_token |-> tok, action |-> Some(action),
     status |-> Some("success")]

\* the callbacks of the full system's runs
Callbacks ==
    {Callback(Some(RT_OK10), "login"),
     Callback(Some(RT_LEN5), "login"),
     Callback(Some(RT_OK10), "logout")}

NoCallback == [path |-> "", request_token |-> NONE, action |-> NONE, status |-> NONE]

\* do_GET, line 139, with the length test lost
TokenFormatOK_NoLength(request_token) == isalnum(request_token)

\* do_GET, line 139: not (not isalnum or len < 10)
TokenFormatOK(request_token) ==
    ~(~isalnum(request_token) \/ Len(request_token) < MinTokenLen)

\* do_GET, lines 124-143: what the handler does with a request
CallbackVerdict(r) ==
    IF r.path # "/callback" THEN "Invalid callback path"
    ELSE IF IsNone(r.request_token) \/ Val(r.request_token) = <<>>
        THEN "Missing request token"
    ELSE IF ~TokenFormatOK(Val(r.request_token))
        THEN "Invalid request token format"
    ELSE IF r.action = Some("login") /\ r.status = Some("success")
        THEN "exchange"
    ELSE "Authentication failed"

(***************************************************************************)
(* The remote place_order and orders answers, and the order log.           *)
(***************************************************************************)
\* kc.place_order returns a dict with order_id, a bare string, a dict
\* without order_id, or nothing
Responses ==
    {[form |-> "dict", order_id |-> Some("o1")],
     [form |-> "str", order_id |-> Some("o1")],
     [form |-> "dict", order_id |-> NONE],
     [form |-> "none", order_id |-> NONE]}

\* trading.py:178-184 and 270-275
ExtractOrderId(order_response) ==
    IF order_response.form = "none" THEN NONE ELSE order_response.order_id

Order(id, status, status_message, rejection_reason) ==
    [order_id |-> id, status |-> status, status_message |-> status_message,
     rejection_reason |-> rejection_reason]

\* lists kc.orders() returns
OrderLists ==
    {<<>>,
     <<Order("o1", "COMPLETE", NONE, NONE)>>,
     <<Order("o1", "REJECTED", Some("margin"), Some("rms"))>>,
     <<Order("o1", "CANCELLED", NONE, Some("rms"))>>,
     <<Order("o2", "REJECTED", Some("margin"), NONE),
       Order("o1", "OPEN", NONE, NONE)>>}

\* trading.py:197-201: the first order of the list with the id, none if absent
FindOrder(orders, order_id) ==
    LET hits == {i \in 1..Len(orders) : orders[i].order_id = order_id}
    IN  IF hits = {} THEN NONE
        ELSE Some(orders[CHOOSE i \in hits : \A j \in hits : i <= j])

\* trading.py:205
ReasonOf(placed_order) ==
    IF ~IsNone(placed_order.status_message) THEN placed_order.status_message
    ELSE placed_order.rejection_reason

\* trading.py:208
IsRejectedStatus(order_status) == order_status \in {"REJECTED", "CANCELLED"}

\* one line of logs/order.log
LogEntry(kind, req, order_id) ==
    [kind |-> kind, type_ |-> req.transaction_type,
     stock |-> req.tradingsymbol, quantity |-> req.quantity.v,
     order_id |-> order_id]

StartPort == 8080
PortAttempts == 2
Ports == StartPort..(StartPort + PortAttempts - 1)

(***************************************************************************)
(* State.                                                                  *)
(***************************************************************************)
VARIABLES
    tokens_file,    \* data/kite_tokens.json: NONE or Some(record)
    auth_manager,   \* the FullyAutomatedKiteAuth object
    listeners,      \* per port: "free" or "serving"
    kc,             \* trading.kc: FALSE is None, TRUE is auth_manager.kc
    order_log,      \* logs/order.log
    now,            \* the clock, in hours
    is_docker,      \* DOCKER_ENV == 'true' or not DISPLAY
    call,           \* per caller thread: the frame of its operation
    handler,        \* per port: the listener's request thread
    obs             \* history: completion signals of the current attempt

vars == <<tokens_file, auth_manager, listeners, kc, order_log, now,
          is_docker, call, handler, obs>>

NoRet == [kind |-> "none", token |-> "", exc |-> <<>>]
RetNone == [kind |-> "None", token |-> "", exc |-> <<>>]
RetToken(t) == [kind |-> "token", token |-> t, exc |-> <<>>]
RetClient == [kind |-> "client", token |-> "", exc |-> <<>>]
RetRaise(e) == [kind |-> "raise", token |-> "", exc |-> e]

NoResult ==
    [status |-> "", order_id |-> NONE, order_status |-> "",
     rejection_reason |-> NONE, error |-> <<>>, token |-> "",
     reason |-> "", url |-> <<>>, text |-> <<>>,
     error_code |-> NONE, error_message |-> NONE]

\* history of one call: the remote calls made, the log lines appended, and
\* what the two submissions, the re-authentication and the lookup gave
NoHistory ==
    [n_place |-> 0, n_orders |-> 0, n_profile |-> 0, n_gac |-> 0,
     n_log |-> 0, logged |-> <<>>, sub1 |-> "", reauth |-> "", sub2 |-> "",
     placed_id |-> NONE, lookup |-> "", reason |-> NONE,
     log_failed |-> FALSE, bound0 |-> FALSE,
     stale_signal |-> FALSE, flow |-> FALSE,
     tokens |-> NONE, clock |-> 0, probe |-> "", client_token |-> NONE,
     flow_exchanged |-> FALSE, bound_by_flow |-> FALSE, prev |-> "",
     saved |-> NONE, over |-> NONE, n_positions |-> 0, answer |-> NONE,
     env |-> NONE, config_file |-> NONE,
     tool |-> "", gate |-> "", inner |-> ""]

IdleFrame ==
    [op |-> "idle", pc |-> "idle", stack |-> <<>>, req |-> NoReq,
     auto |-> FALSE, force |-> FALSE, ret |-> NoRet, held |-> NoRet,
     order_id |-> NONE, order_status |-> "", rejection_reason |-> NONE,
     err |-> <<>>, result |-> NoResult, g |-> NoHistory]

\* history of the login attempt in progress: the completion signals set and
\* whether a token exchange succeeded since the attempt started
NoObs == [attempt_signals |-> 0, attempt_exchanged |-> FALSE]

IdleHandler ==
    [pc |-> "idle", req |-> NoCallback, response |-> 0, exchanged |-> FALSE,
     sets |-> 0, returned |-> NONE, session |-> ""]

\* a URL is the sequence of its parts: scheme, host, and the rest
DefaultRedirect == <<"http://", "localhost", ":", ToString(StartPort), "/callback">>

\* start_auth_server, line 309
LocalRedirect(port) == <<"http://", "localhost", ":", ToString(port), "/callback">>

\* values of KITE_REDIRECT_URL: unset, set to the empty text, set to a URL
RedirectSettings == {NONE, Some(<<>>), Some(<<"https://", "example.com", "/cb">>)}

ApiKeys == {"keyA", "keyB"}

\* AutoAuthConfig.load_config, lines 48-50 and 77-78: `or` takes the default
\* for a setting that is unset or empty
load_config(api_key, original_redirect_url) ==
    [api_key |-> api_key,
     original_redirect_url |-> original_redirect_url,
     redirect_url |-> IF original_redirect_url \in {NONE, Some(<<>>)}
                      THEN DefaultRedirect
                      ELSE Val(original_redirect_url)]

\* FullyAutomatedKiteAuth.__init__
InitAuthManager ==
    [kc_token |-> NONE, server |-> NONE, auth_complete |-> FALSE,
     auth_success |-> FALSE, config |-> load_config("keyA", NONE)]

BaseInit ==
    /\ tokens_file \in InitialTokenFiles
    /\ auth_manager = InitAuthManager
    /\ listeners = [p \in Ports |-> "free"]
    /\ kc = FALSE
    /\ order_log = <<>>
    /\ now = 0
    /\ is_docker \in BOOLEAN
    /\ handler = [p \in Ports |-> IdleHandler]
    /\ obs = NoObs

Init ==
    /\ BaseInit
    /\ call = [c \in Callers |-> IF c = "c1" THEN IdleFrame
                                 ELSE [IdleFrame EXCEPT !.op = "off", !.pc = "off"]]

(***************************************************************************)
(* Frames: calling an operation of the session manager and returning.      *)
(***************************************************************************)
Frame(c) == call[c]

SetFrame(c, f) == call' = [call EXCEPT ![c] = f]

\* enter a nested operation at entry, to come back at back
Enter(f, entry, back) ==
    [f EXCEPT !.pc = entry, !.stack = <<back>> \o f.stack, !.ret = NoRet]

\* leave the nested operation with return value (or exception) r
Leave(f, r) ==
    [f EXCEPT !.pc = Head(f.stack), !.stack = Tail(f.stack), !.ret = r,
              !.held = NoRet]

\* the operation is over: only its result and history stay
Finish(f, result) ==
    [IdleFrame EXCEPT !.op = f.op, !.pc = "done", !.req = f.req,
                      !.auto = f.auto, !.force = f.force,
                      !.result = result, !.g = f.g]

Outcome(status) == [NoResult EXCEPT !.status = status]

\* a write of one line to logs/order.log: "ok" appends it, an error text
\* is the exception open() or write() raised
LogWrites == {<<>>} \cup LogErrors

Appended(f, entry) ==
    [f EXCEPT !.g.n_log = @ + 1, !.g.logged = Append(@, entry)]

(***************************************************************************)
(* trading.place_order                                                     *)
(***************************************************************************)
\* the runs are bounded: operations start while the log is short
CanStart(c) == Frame(c).pc = "idle" /\ Len(order_log) < MaxLog

\* a caller starts place_order(req)
PlaceOrderCall(c, req) ==
    /\ CanStart(c)
    /\ SetFrame(c, [IdleFrame EXCEPT !.op = "place_order", !.pc = "po_validate",
                                     !.req = req, !.g.bound0 = kc])
    /\ UNCHANGED <<tokens_file, auth_manager, listeners, kc, order_log, now,
                   is_docker, handler, obs>>

\* lines 99-157: input validation, then the check for a bound client
PlaceOrderValidate(c) ==
    LET f == Frame(c)
        error == ValidationError(f.req)
    IN  /\ f.pc = "po_validate"
        /\ IF error # ""
           THEN SetFrame(c, Finish(f, [Outcome("validation_error")
                                          EXCEPT !.reason = error]))
           ELSE IF ~kc
           THEN SetFrame(c, Enter([f EXCEPT !.auto = TRUE, !.g.n_gac = @ + 1],
                                  "gac", "po_ensured"))
           ELSE SetFrame(c, [f EXCEPT !.pc = "po_submit"])
        /\ UNCHANGED <<tokens_file, auth_manager, listeners, kc, order_log,
                       now, is_docker, handler, obs>>

\* a global kc that is bound whatever get_authenticated_client did
EnsuredClient_Always(ret, bound) == TRUE

\* line 150: kc is assigned only when get_authenticated_client returns
EnsuredClient(ret, bound) == IF ret.kind = "raise" THEN bound ELSE TRUE

\* lines 150-157: get_authenticated_client came back
PlaceOrderEnsured(c) ==
    LET f == Frame(c)
    IN  /\ f.pc = "po_ensured"
        /\ IF f.ret.kind = "raise"
           THEN SetFrame(c, Finish(f, [Outcome("authentication_error")
                                         EXCEPT !.error = f.ret.exc]))
           ELSE SetFrame(c, [f EXCEPT !.pc = "po_submit", !.ret = NoRet])
        /\ kc' = EnsuredClient(f.ret, kc)
        /\ UNCHANGED <<tokens_file, auth_manager, listeners, order_log, now,
                       is_docker, handler, obs>>

\* lines 159-184: the submission, with the errors kc.place_order raises
Submit(c, errors) ==
    LET f == Frame(c)
        g == [f EXCEPT !.g.n_place = @ + 1]
    IN  /\ f.pc = "po_submit"
        /\ \/ \E order_response \in Responses :
                LET order_id == ExtractOrderId(order_response)
                IN  SetFrame(c, [g EXCEPT !.order_id = order_id,
                                          !.g.sub1 = "returned",
                                          !.g.placed_id = order_id,
                                          !.pc = IF IsNone(order_id)
                                                 THEN "po_log_success"
                                                 ELSE "po_status"])
           \/ \E e \in errors :
                SetFrame(c, [g EXCEPT !.err = e, !.pc = "po_except",
                                      !.g.sub1 = IF is_token_expired_error(e)
                                                 THEN "auth_error"
                                                 ELSE "other_error"])
        /\ UNCHANGED <<tokens_file, auth_manager, listeners, kc, order_log,
                       now, is_docker, handler, obs>>

PlaceOrderSubmit(c) == Submit(c, RemoteErrors)

\* lines 190-235: the status lookup of a placed order
PlaceOrderStatus(c) ==
    LET f == Frame(c)
        g == [f EXCEPT !.g.n_orders = @ + 1]
    IN  /\ f.pc = "po_status"
        /\ \/ \* kc.orders() raises: swallowed at line 233
              /\ SetFrame(c, [g EXCEPT !.pc = "po_log_success",
                                       !.g.lookup = "failed"])
              /\ UNCHANGED order_log
           \/ \E orders \in OrderLists :
                LET placed_order == FindOrder(orders, Val(f.order_id))
                IN  IF IsNone(placed_order)
                    THEN /\ SetFrame(c, [g EXCEPT !.pc = "po_log_success",
                                                  !.g.lookup = "missing"])
                         /\ UNCHANGED order_log
                    ELSE LET order_status == Val(placed_order).status
                             rejection_reason == ReasonOf(Val(placed_order))
                             h == [g EXCEPT !.order_status = order_status,
                                            !.rejection_reason = rejection_reason,
                                            !.g.lookup = order_status,
                                            !.g.reason = rejection_reason]
                             entry == LogEntry("PLACED_BUT_REJECTED", f.req,
                                               f.order_id)
                         IN  IF ~IsRejectedStatus(order_status)
                             THEN /\ SetFrame(c, [h EXCEPT !.pc = "po_log_success"])
                                  /\ UNCHANGED order_log
                             ELSE \E w \in LogWrites :
                                    IF w = <<>>
                                    THEN /\ order_log' = Append(order_log, entry)
                                         /\ SetFrame(c, Finish(Appended(h, entry),
                                              [Outcome("placed_but_rejected") EXCEPT
                                                 !.order_id = f.order_id,
                                                 !.order_status = order_status,
                                                 !.rejection_reason = rejection_reason]))
                                    ELSE \* the log's exception is swallowed at 233
                                         /\ UNCHANGED order_log
                                         /\ SetFrame(c, [h EXCEPT
                                              !.pc = "po_log_success",
                                              !.g.log_failed = TRUE])
        /\ UNCHANGED <<tokens_file, auth_manager, listeners, kc, now,
                       is_docker, handler, obs>>

\* lines 237-257: log and report the placement
PlaceOrderLogSuccess(c) ==
    LET f == Frame(c)
        entry == LogEntry("SUCCESS", f.req, f.order_id)
    IN  /\ f.pc = "po_log_success"
        /\ \E w \in LogWrites :
             IF w = <<>>
             THEN /\ order_log' = Append(order_log, entry)
                  /\ SetFrame(c, Finish(Appended(f, entry),
                       [Outcome("success") EXCEPT
                          !.order_id = f.order_id,
                          !.order_status = IF f.order_status = "" THEN "PENDING"
                                           ELSE f.order_status]))
             ELSE \* the log's exception reaches the handler at line 259
                  /\ UNCHANGED order_log
                  /\ SetFrame(c, [f EXCEPT !.err = w, !.pc = "po_except",
                                           !.g.log_failed = TRUE])
        /\ UNCHANGED <<tokens_file, auth_manager, listeners, kc, now,
                       is_docker, handler, obs>>

\* lines 259-265: an exception of the try block; token errors re-authenticate
PlaceOrderExcept(c) ==
    LET f == Frame(c)
    IN  /\ f.pc = "po_except"
        /\ IF is_token_expired_error(f.err)
           THEN \* nothing of the first attempt is read again
                SetFrame(c, Enter([f EXCEPT !.auto = TRUE, !.g.n_gac = @ + 1,
                                            !.err = <<>>, !.order_id = NONE,
                                            !.order_status = "",
                                            !.rejection_reason = NONE],
                                  "gac", "po_retry"))
           ELSE SetFrame(c, [f EXCEPT !.pc = "po_failed"])
        /\ UNCHANGED <<tokens_file, auth_manager, listeners, kc, order_log,
                       now, is_docker, handler, obs>>

\* lines 265-304: the client of the re-authentication, and the one retry
PlaceOrderRetry(c) ==
    LET f == Frame(c)
        g == [f EXCEPT !.g.n_place = @ + 1, !.g.reauth = "returned"]
    IN  /\ f.pc = "po_retry"
        /\ IF f.ret.kind = "raise"
           THEN /\ SetFrame(c, Finish([f EXCEPT !.g.reauth = "raised"],
                        [Outcome("authentication_error") EXCEPT !.error = f.ret.exc]))
                /\ UNCHANGED <<kc, order_log>>
           ELSE /\ kc' = TRUE
                /\ \/ \E e \in RemoteErrors :
                        /\ SetFrame(c, Finish([g EXCEPT !.g.sub2 = "raised"],
                             [Outcome("authentication_error") EXCEPT !.error = e]))
                        /\ UNCHANGED order_log
                   \/ \E order_response \in Responses, w \in LogWrites :
                        LET order_id == ExtractOrderId(order_response)
                            entry == LogEntry("SUCCESS", f.req, order_id)
                            h == [g EXCEPT !.g.sub2 = "returned"]
                        IN  IF w = <<>>
                            THEN /\ order_log' = Append(order_log, entry)
                                 /\ SetFrame(c, Finish(Appended(h, entry),
                                      [Outcome("success") EXCEPT
                                         !.order_id = order_id,
                                         !.order_status = "PENDING"]))
                            ELSE /\ UNCHANGED order_log
                                 /\ SetFrame(c, Finish([h EXCEPT !.g.log_failed = TRUE],
                                      [Outcome("authentication_error") EXCEPT
                                         !.error = w]))
        /\ UNCHANGED <<tokens_file, auth_manager, listeners, now, is_docker,
                       handler, obs>>

\* the units of a JSON text that stand for themselves inside a string
QUOTE == "\""
BACKSLASH == "\\"

ScanFailed == [ok |-> FALSE, val |-> NONE, next |-> 0]

\* json.load: the string whose opening quote stands before position i
RECURSIVE ScanString(_, _, _)
ScanString(text, i, acc) ==
    IF i > Len(text) THEN ScanFailed
    ELSE IF text[i] = QUOTE THEN [ok |-> TRUE, val |-> Some(acc), next |-> i + 1]
    ELSE IF text[i] = BACKSLASH
    THEN IF i + 1 <= Len(text) /\ text[i + 1] \in {QUOTE, BACKSLASH}
         THEN ScanString(text, i + 2, Append(acc, text[i + 1]))
         ELSE ScanFailed
    ELSE ScanString(text, i + 1, Append(acc, text[i]))

\* json.load: the value at position i, a string or null
ScanValue(text, i) ==
    IF i > Len(text) THEN ScanFailed
    ELSE IF text[i] = "null" THEN [ok |-> TRUE, val |-> NONE, next |-> i + 1]
    ELSE IF text[i] = QUOTE THEN ScanString(text, i + 1, <<>>)
    ELSE ScanFailed

\* json.load: one member of the object, after the unit that opens it
ScanMember(text, i, opener, key) ==
    IF i >= 1 /\ i + 1 <= Len(text) /\ text[i] = opener /\ text[i + 1] = key
    THEN ScanValue(text, i + 2)
    ELSE ScanFailed

\* json.loads of an error text, lines 324-333: the fields place_order reads
\* of the object, with ok false where json.loads raises.  The text is in
\* the units of the token file's text; data is an object with the one
\* member rejection_reason, a string or null.
NoErrorJson ==
    [ok |-> TRUE, error_type |-> NONE, status |-> NONE, message |-> NONE,
     error |-> NONE, rejection_reason |-> NONE]

RECURSIVE ScanError(_, _, _)
ScanError(text, i, obj) ==
    IF i + 1 > Len(text)
         \/ text[i] \notin {"error_type:", "status:", "message:", "error:",
                            "data:"}
    THEN [NoErrorJson EXCEPT !.ok = FALSE]
    ELSE LET key == text[i]
             nested == key = "data:" /\ text[i + 1] = "{"
             v == IF nested
                  THEN ScanMember(text, i + 1, "{", "rejection_reason:")
                  ELSE ScanValue(text, i + 1)
             closed == ~nested \/ (v.next <= Len(text) /\ text[v.next] = "}")
             after == IF nested THEN v.next + 1 ELSE v.next
             read == CASE key = "error_type:" -> [obj EXCEPT !.error_type = v.val]
                       [] key = "status:" -> [obj EXCEPT !.status = v.val]
                       [] key = "message:" -> [obj EXCEPT !.message = v.val]
                       [] key = "error:" -> [obj EXCEPT !.error = v.val]
                       [] OTHER -> IF nested
                                   THEN [obj EXCEPT !.rejection_reason = v.val]
                                   ELSE obj
         IN  IF ~v.ok \/ ~closed \/ after > Len(text)
             THEN [NoErrorJson EXCEPT !.ok = FALSE]
             ELSE IF text[after] = "," THEN ScanError(text, after + 1, read)
             ELSE IF text[after] = "}" /\ after = Len(text) THEN read
             ELSE [NoErrorJson EXCEPT !.ok = FALSE]

json_loads(text) ==
    IF text = <<"{", "}">> THEN NoErrorJson
    ELSE IF Len(text) > 2 /\ text[1] = "{" THEN ScanError(text, 2, NoErrorJson)
    ELSE [NoErrorJson EXCEPT !.ok = FALSE]

\* Python's "a or b" on strings and None
Or(a, b) == IF ~IsNone(a) /\ Val(a) # <<>> THEN a ELSE b

\* lines 307-342, for an exception whose only argument is its text
parse_error(error_str) ==
    LET raw == [error_code |-> NONE, error_message |-> Some(error_str),
                rejection_reason |-> NONE]
        error_json == json_loads(error_str)
    IN  IF /\ Len(error_str) >= 2
           /\ error_str[1] = "{" /\ error_str[Len(error_str)] = "}"
           /\ error_json.ok
        THEN [error_code |-> Or(error_json.error_type, error_json.status),
              error_message |-> Or(error_json.message, error_json.error),
              rejection_reason |-> error_json.rejection_reason]
        ELSE raw

\* line 345: log_order_rejection or log_order_error
FailedLogKind(parsed) ==
    IF \/ ~IsNone(parsed.error_code) /\ Val(parsed.error_code) # <<>>
       \/ ~IsNone(parsed.rejection_reason) /\ Val(parsed.rejection_reason) # <<>>
    THEN "REJECTED" ELSE "ERROR"

\* lines 306-384: any other error is logged and returned as "failed"; an
\* error of this log write leaves place_order as an exception
PlaceOrderFailed(c) ==
    LET f == Frame(c)
        parsed == parse_error(f.err)
        entry == LogEntry(FailedLogKind(parsed), f.req, NONE)
    IN  /\ f.pc = "po_failed"
        /\ \E w \in LogWrites :
             IF w = <<>>
             THEN /\ order_log' = Append(order_log, entry)
                  /\ SetFrame(c, Finish(Appended(f, entry),
                       [Outcome("failed") EXCEPT
                          !.error = f.err,
                          !.error_code = parsed.error_code,
                          !.error_message = parsed.error_message,
                          !.rejection_reason = parsed.rejection_reason]))
             ELSE /\ UNCHANGED order_log
                  /\ SetFrame(c, Finish([f EXCEPT !.g.log_failed = TRUE],
                       [Outcome("raised") EXCEPT !.error = w]))
        /\ UNCHANGED <<tokens_file, auth_manager, listeners, kc, now,
                       is_docker, handler, obs>>

(***************************************************************************)
(* FullyAutomatedKiteAuth.get_authenticated_client                         *)
(***************************************************************************)
\* lines 555-570 with auto_authenticate taken as true
ClientDecision_AlwaysAuto(token_is_valid, auto_authenticate) ==
    IF token_is_valid THEN "client" ELSE "authenticate"

\* lines 555-570: what the operation does once the token is checked
ClientDecision(token_is_valid, auto_authenticate) ==
    IF token_is_valid THEN "client"
    ELSE IF auto_authenticate THEN "authenticate"
    ELSE "TokenExpiredException"

\* history: what the validation of a client or token request was given
Checked(f, tokens, clock, probe, bound) ==
    IF f.op \in {"get_kite_client", "is_token_valid", "get_token_status"}
    THEN [f EXCEPT !.g.tokens = tokens, !.g.clock = clock,
                   !.g.probe = IF TokenLive(tokens, clock) THEN probe ELSE "",
                   !.g.client_token = bound]
    ELSE f

\* lines 544-570
ValidatedClient(c, probes) ==
    LET f == Frame(c)
        tokens == tokens_file
    IN  /\ f.pc = "gac"
        /\ \E probe \in probes :
             LET token_is_valid == is_token_valid(tokens, now, probe)
                 decision == ClientDecision(token_is_valid, f.auto)
                 bound == BoundAfterValidation(tokens, now, auth_manager.kc_token)
                 g == Checked([f EXCEPT !.g.n_profile =
                                   IF TokenLive(tokens, now) THEN 1 ELSE @,
                                 !.g.flow_exchanged = FALSE,
                                 !.g.bound_by_flow = FALSE],
                              tokens, now, probe, bound)
             IN  /\ auth_manager' = [auth_manager EXCEPT !.kc_token = bound]
                 /\ SetFrame(c,
                        CASE decision = "client" -> Leave(g, RetClient)
                          [] decision = "authenticate" ->
                               Enter([g EXCEPT !.force = TRUE], "afa", "gac_flow")
                          [] OTHER -> Leave(g, RetRaise(EXC_EXPIRED)))
        /\ UNCHANGED <<tokens_file, listeners, kc, order_log, now, is_docker,
                       handler, obs>>

GetAuthenticatedClient(c) == ValidatedClient(c, Probes)

\* lines 562-567: the forced flow came back
GetAuthenticatedClientFlow(c) ==
    LET f == Frame(c)
    IN  /\ f.pc = "gac_flow"
        /\ IF f.ret.kind = "raise"
           THEN /\ SetFrame(c, Leave(f, f.ret))
                /\ UNCHANGED auth_manager
           ELSE IF f.ret.kind = "token" /\ f.ret.token # ""
           THEN /\ auth_manager' =
                       [auth_manager EXCEPT !.kc_token = Some(f.ret.token)]
                /\ SetFrame(c, Leave([f EXCEPT !.g.bound_by_flow = TRUE],
                                     RetClient))
           ELSE /\ SetFrame(c, Leave(f, RetRaise(EXC_FAILED)))
                /\ UNCHANGED auth_manager
        /\ UNCHANGED <<tokens_file, listeners, kc, order_log, now, is_docker,
                       handler, obs>>

(***************************************************************************)
(* FullyAutomatedKiteAuth.authenticate_fully_automated                     *)
(***************************************************************************)
\* find_available_port returning any port of the range that binds
find_available_port_Highest(ls) ==
    LET free == {p \in Ports : ls[p] = "free"}
    IN  IF free = {} THEN NONE
        ELSE Some(CHOOSE p \in free : \A q \in free : p >= q)

\* find_available_port: the first port of the range that binds
find_available_port(ls) ==
    LET free == {p \in Ports : ls[p] = "free"}
    IN  IF free = {} THEN NONE
        ELSE Some(CHOOSE p \in free : \A q \in free : p <= q)

\* lines 386-411: environment check, token check, start of the listener
AuthenticateStart(c) ==
    LET f == Frame(c)
        tokens == tokens_file
        port == find_available_port(listeners)
    IN  /\ f.pc = "afa"
        /\ IF is_docker
           THEN /\ SetFrame(c, Leave(f, RetRaise(EXC_DOCKER)))
                /\ UNCHANGED <<auth_manager, listeners, obs>>
           ELSE \E probe \in Probes, bound \in BOOLEAN :
                  LET checked == ~f.force /\ ~IsNone(tokens)
                      g == [f EXCEPT !.g.n_profile =
                              IF checked /\ TokenLive(tokens, now)
                              THEN 1 ELSE @,
                                     !.g.probe =
                              IF checked /\ TokenLive(tokens, now)
                              THEN probe ELSE @]
                      kc_token == IF checked
                                  THEN BoundAfterValidation(tokens, now,
                                           auth_manager.kc_token)
                                  ELSE auth_manager.kc_token
                  IN  IF checked /\ is_token_valid(tokens, now, probe)
                      THEN /\ SetFrame(c, Leave(g, RetToken(Val(tokens).access_token)))
                           /\ auth_manager' = [auth_manager EXCEPT !.kc_token = kc_token]
                           /\ UNCHANGED <<listeners, obs>>
                      ELSE IF IsNone(port)
                      THEN \* no port: start_auth_server returned None
                           /\ SetFrame(c, Leave(g, RetNone))
                           /\ auth_manager' = [auth_manager EXCEPT !.kc_token = kc_token]
                           /\ UNCHANGED <<listeners, obs>>
                      ELSE IF ~bound
                      THEN \* HTTPServer raised after the redirect was rebound
                           /\ SetFrame(c, Leave(g, RetNone))
                           /\ auth_manager' = [auth_manager EXCEPT
                                                 !.kc_token = kc_token,
                                                 !.config.redirect_url =
                                                     LocalRedirect(Val(port))]
                           /\ UNCHANGED <<listeners, obs>>
                      ELSE /\ SetFrame(c, [g EXCEPT !.pc = "afa_browser",
                                                    !.g.flow = TRUE])
                           /\ auth_manager' = [auth_manager EXCEPT
                                                 !.kc_token = kc_token,
                                                 !.server = port,
                                                 !.config.redirect_url =
                                                     LocalRedirect(Val(port))]
                           /\ listeners' = [listeners EXCEPT ![Val(port)] = "serving"]
                           /\ obs' = NoObs
        /\ UNCHANGED <<tokens_file, kc, order_log, now, is_docker, handler>>

\* lines 413-436: webbrowser.open; an exception goes through the finally
AuthenticateOpenBrowser(c) ==
    LET f == Frame(c)
    IN  /\ f.pc = "afa_browser"
        /\ \/ SetFrame(c, [f EXCEPT !.pc = "afa_wait"])
           \/ SetFrame(c, [f EXCEPT !.pc = "afa_finally",
                                    !.held = RetRaise(EXC_BROWSER)])
        /\ UNCHANGED <<tokens_file, auth_manager, listeners, kc, order_log,
                       now, is_docker, handler, obs>>

\* lines 439-447: auth_complete.wait returned true
AuthenticateSignalled(c) ==
    LET f == Frame(c)
        tokens == tokens_file
        value == IF auth_manager.auth_success /\ ~IsNone(tokens)
                 THEN RetToken(Val(tokens).access_token)
                 ELSE RetNone
    IN  /\ f.pc = "afa_wait"
        /\ auth_manager.auth_complete
        /\ SetFrame(c, [f EXCEPT !.pc = "afa_finally", !.held = value,
                                 !.g.stale_signal = (obs.attempt_signals = 0),
                                 !.g.flow_exchanged = obs.attempt_exchanged])
        /\ UNCHANGED <<tokens_file, auth_manager, listeners, kc, order_log,
                       now, is_docker, handler, obs>>

\* lines 448-451: auth_complete.wait timed out
AuthenticateTimeout(c) ==
    LET f == Frame(c)
    IN  /\ f.pc = "afa_wait"
        /\ ~auth_manager.auth_complete
        /\ SetFrame(c, [f EXCEPT !.pc = "afa_finally", !.held = RetNone])
        /\ UNCHANGED <<tokens_file, auth_manager, listeners, kc, order_log,
                       now, is_docker, handler, obs>>

\* stop_auth_server that leaves the listener running
StoppedListeners_Kept(ls, server) == ls

\* stop_auth_server: shutdown() waits for the request being handled
StoppedListeners(ls, server) ==
    IF IsNone(server) THEN ls ELSE [ls EXCEPT ![Val(server)] = "free"]

\* lines 453-454: the finally clause, then the return
AuthenticateFinally(c) ==
    LET f == Frame(c)
        server == auth_manager.server
    IN  /\ f.pc = "afa_finally"
        /\ IsNone(server) \/ listeners[Val(server)] = "free"
              \/ handler[Val(server)].pc = "idle"
        /\ listeners' = StoppedListeners(listeners, server)
        /\ handler' = IF IsNone(server) THEN handler
                      ELSE [handler EXCEPT ![Val(server)] = IdleHandler]
        /\ obs' = NoObs
        /\ SetFrame(c, Leave(f, f.held))
        /\ UNCHANGED <<tokens_file, auth_manager, kc, order_log, now,
                       is_docker>>

(***************************************************************************)
(* FullyAutomatedKiteAuth.is_token_valid on the loaded record, as its      *)
(* callers use it.                                                         *)
(***************************************************************************)
IsTokenValid(c) ==
    LET tokens == tokens_file
    IN  /\ CanStart(c)
        /\ \E probe \in Probes :
             LET bound == BoundAfterValidation(tokens, now, auth_manager.kc_token)
                 f == Checked([IdleFrame EXCEPT !.op = "is_token_valid",
                                 !.g.bound0 = kc,
                                 !.g.n_profile =
                                     IF TokenLive(tokens, now) THEN 1 ELSE 0],
                              tokens, now, probe, bound)
             IN  /\ auth_manager' = [auth_manager EXCEPT !.kc_token = bound]
                 /\ SetFrame(c, Finish(f,
                        Outcome(IF is_token_valid(tokens, now, probe)
                                THEN "True" ELSE "False")))
        /\ UNCHANGED <<tokens_file, listeners, kc, order_log, now, is_docker,
                       handler, obs>>

(***************************************************************************)
(* FullyAutomatedKiteAuth.get_token_status                                 *)
(***************************************************************************)
\* lines 505-534 with the "not tokens" test lost
TokenStatus_NoRecordExpired(tokens, token_is_valid) ==
    IF token_is_valid THEN "valid" ELSE "expired"

\* lines 505-534: the status reported
TokenStatus(tokens, token_is_valid) ==
    IF IsNone(tokens) THEN "no_tokens"
    ELSE IF token_is_valid THEN "valid"
    ELSE "expired"

\* lines 503-534: the frame of a finished call whose caller had seen prev
StatusFrame(tokens, probe, bound, prev) ==
    LET probed == ~IsNone(tokens) /\ TokenLive(tokens, now)
        f == Checked([IdleFrame EXCEPT !.op = "get_token_status",
                        !.g.bound0 = kc, !.g.prev = prev,
                        !.g.n_profile = IF probed THEN 1 ELSE 0],
                     tokens, now, probe, bound)
    IN  Finish(f, Outcome(TokenStatus(tokens,
                                      is_token_valid(tokens, now, probe))))

\* get_token_status, lines 496-534
GetTokenStatus(c) ==
    LET tokens == tokens_file
    IN  /\ CanStart(c)
        /\ \E probe \in Probes :
             LET bound == BoundAfterValidation(tokens, now, auth_manager.kc_token)
             IN  /\ auth_manager' = [auth_manager EXCEPT !.kc_token = bound]
                 /\ SetFrame(c, StatusFrame(tokens, probe, bound, ""))
        /\ UNCHANGED <<tokens_file, listeners, kc, order_log, now, is_docker,
                       handler, obs>>

\* get_token_status called again right after it returned
GetTokenStatusAgain(c) ==
    LET tokens == tokens_file
        f == Frame(c)
    IN  /\ f.op = "get_token_status" /\ f.pc = "done" /\ f.g.prev = ""
        /\ \E probe \in Probes :
             LET bound == BoundAfterValidation(tokens, now, auth_manager.kc_token)
             IN  /\ auth_manager' = [auth_manager EXCEPT !.kc_token = bound]
                 /\ SetFrame(c, StatusFrame(tokens, probe, bound,
                                            f.result.status))
        /\ UNCHANGED <<tokens_file, listeners, kc, order_log, now, is_docker,
                       handler, obs>>

(***************************************************************************)
(* trading.get_authenticated_kite_client() and the command-line            *)
(* authentication (auth_manager.py, main) as operations of their own.      *)
(***************************************************************************)
\* trading.py:47: get_authenticated_client(auto_authenticate=False)
GetKiteClientCall(c) ==
    /\ CanStart(c)
    /\ SetFrame(c, Enter([IdleFrame EXCEPT !.op = "get_kite_client",
                                           !.auto = FALSE, !.g.bound0 = kc],
                         "gac", "gkc_return"))
    /\ UNCHANGED <<tokens_file, auth_manager, listeners, kc, order_log, now,
                   is_docker, handler, obs>>

\* trading.py:47-58: bind trading.kc and return, or raise again
GetKiteClientReturn(c) ==
    LET f == Frame(c)
    IN  /\ f.pc = "gkc_return"
        /\ IF f.ret.kind = "raise"
           THEN /\ SetFrame(c, Finish(f, [Outcome("raised") EXCEPT !.error = f.ret.exc]))
                /\ kc' = kc
           ELSE /\ SetFrame(c, Finish(f, Outcome("returned")))
                /\ kc' = TRUE
        /\ UNCHANGED <<tokens_file, auth_manager, listeners, order_log, now,
                       is_docker, handler, obs>>

\* auth_manager.py:104, auth_fully_automated.py:577
AuthenticateCall(c, force) ==
    /\ CanStart(c)
    /\ SetFrame(c, Enter([IdleFrame EXCEPT !.op = "authenticate",
                                           !.force = force, !.g.bound0 = kc],
                         "afa", "auth_return"))
    /\ UNCHANGED <<tokens_file, auth_manager, listeners, kc, order_log, now,
                   is_docker, handler, obs>>

\* the value authenticate_fully_automated gave its caller
AuthenticateReturn(c) ==
    LET f == Frame(c)
    IN  /\ f.pc = "auth_return"
        /\ SetFrame(c, Finish(f,
             IF f.ret.kind = "raise"
             THEN [Outcome("raised") EXCEPT !.error = f.ret.exc]
             ELSE [Outcome("returned") EXCEPT !.token = f.ret.token]))
        /\ UNCHANGED <<tokens_file, auth_manager, listeners, kc, order_log,
                       now, is_docker, handler, obs>>

\* the caller takes the result; the thread is free for its next operation
Return(c) ==
    /\ Frame(c).pc = "done"
    /\ SetFrame(c, IdleFrame)
    /\ UNCHANGED <<tokens_file, auth_manager, listeners, kc, order_log, now,
                   is_docker, handler, obs>>

(***************************************************************************)
(* AutoAuthCallbackHandler.do_GET and exchange_request_token, run by the   *)
(* listener's thread.                                                      *)
(***************************************************************************)
SetHandler(p, h) == handler' = [handler EXCEPT ![p] = h]

\* the listener accepts a request
Receive(p, r) ==
    /\ listeners[p] = "serving"
    /\ handler[p].pc = "idle"
    /\ SetHandler(p, [IdleHandler EXCEPT !.pc = "do_GET", !.req = r])
    /\ UNCHANGED <<tokens_file, auth_manager, listeners, kc, order_log, now,
                   is_docker, call, obs>>

\* do_GET, lines 117-160, up to the call of exchange_request_token
DoGet(p) ==
    LET h == handler[p]
    IN  /\ h.pc = "do_GET"
        /\ IF CallbackVerdict(h.req) = "exchange"
           THEN SetHandler(p, [h EXCEPT !.pc = "exchange", !.exchanged = TRUE])
           ELSE SetHandler(p, [h EXCEPT !.pc = "idle", !.response = 400])
        /\ UNCHANGED <<tokens_file, auth_manager, listeners, kc, order_log,
                       now, is_docker, call, obs>>

\* answers of the remote generate_session: a session, or an exception
Sessions ==
    {[access_token |-> "atA", refresh_token |-> Some("rfA")],
     [access_token |-> "atB", refresh_token |-> NONE],
     [access_token |-> "", refresh_token |-> NONE]}

\* threading.Event.set() with no effect
SetEvent_Lost(am) == am

\* self.auth_complete.set(), lines 365, 371 and 376
SetEvent(am) == [am EXCEPT !.auth_complete = TRUE]

Signalled(o) ==
    [o EXCEPT !.attempt_signals = IF @ < 2 THEN @ + 1 ELSE @]

\* exchange_request_token, line 354
ExpiresAt(clock) == clock + ValidityHours

\* exchange_request_token, lines 343-360 and 369-377; its failure paths end
\* the request with a 400
Exchange(p) ==
    LET h == handler[p]
        failed(session) ==
            [h EXCEPT !.pc = "idle", !.sets = @ + 1, !.session = session,
                      !.returned = Some(FALSE), !.response = 400]
    IN  /\ h.pc = "exchange"
        /\ \/ \* generate_session raises
              /\ SetHandler(p, failed("raised"))
              /\ auth_manager' = SetEvent(auth_manager)
              /\ obs' = Signalled(obs)
              /\ UNCHANGED tokens_file
           \/ \E data \in Sessions, saved \in {"saved", "not opened", "truncated"} :
                IF data.access_token = ""
                THEN /\ SetHandler(p, failed("empty"))
                     /\ auth_manager' = SetEvent(auth_manager)
                     /\ obs' = Signalled(obs)
                     /\ UNCHANGED tokens_file
                ELSE IF saved = "saved"
                THEN /\ tokens_file' = save_tokens(data.access_token,
                                          data.refresh_token,
                                          Some(ExpiresAt(now)), now)
                     /\ auth_manager' = [auth_manager EXCEPT
                                           !.kc_token = Some(data.access_token)]
                     /\ SetHandler(p, [h EXCEPT !.pc = "signal",
                                                !.session = "token"])
                     /\ obs' = [obs EXCEPT !.attempt_exchanged = TRUE]
                ELSE \* save_tokens raises: the file is as it was, or cut
                     /\ tokens_file' = IF saved = "truncated" THEN NONE
                                       ELSE tokens_file
                     /\ SetHandler(p, failed("token"))
                     /\ auth_manager' = SetEvent(auth_manager)
                     /\ obs' = Signalled(obs)
        /\ UNCHANGED <<listeners, kc, order_log, now, is_docker, call>>

\* exchange_request_token, line 365
SignalComplete(p) ==
    LET h == handler[p]
    IN  /\ h.pc = "signal"
        /\ auth_manager' = SetEvent(auth_manager)
        /\ obs' = Signalled(obs)
        /\ SetHandler(p, [h EXCEPT !.pc = "flag", !.sets = @ + 1])
        /\ UNCHANGED <<tokens_file, listeners, kc, order_log, now, is_docker,
                       call>>

\* exchange_request_token, lines 366-368, and do_GET's success response
FlagSuccess(p) ==
    LET h == handler[p]
    IN  /\ h.pc = "flag"
        /\ auth_manager' = [auth_manager EXCEPT !.auth_success = TRUE]
        /\ SetHandler(p, [h EXCEPT !.pc = "idle", !.returned = Some(TRUE),
                                   !.response = 200])
        /\ UNCHANGED <<tokens_file, listeners, kc, order_log, now, is_docker,
                       call, obs>>

(***************************************************************************)
(* The environment.                                                        *)
(***************************************************************************)
Tick ==
    /\ now + TickHours <= MaxTime
    /\ now' = now + TickHours
    /\ UNCHANGED <<tokens_file, auth_manager, listeners, kc, order_log,
                   is_docker, call, handler, obs>>

\* callback_server.py runs exchange_request_token in a process of its own:
\* only the token file is shared
StandaloneExchange ==
    /\ \E data \in Sessions :
         /\ data.access_token # ""
         /\ tokens_file' = save_tokens(data.access_token, data.refresh_token,
                                       Some(ExpiresAt(now)), now)
    /\ UNCHANGED <<auth_manager, listeners, kc, order_log, now, is_docker,
                   call, handler, obs>>

Next ==
    \/ \E c \in Callers :
         \/ \E req \in Requests : PlaceOrderCall(c, req)
         \/ PlaceOrderValidate(c)
         \/ PlaceOrderEnsured(c)
         \/ PlaceOrderSubmit(c)
         \/ PlaceOrderStatus(c)
         \/ PlaceOrderLogSuccess(c)
         \/ PlaceOrderExcept(c)
         \/ PlaceOrderRetry(c)
         \/ PlaceOrderFailed(c)
         \/ GetAuthenticatedClient(c)
         \/ GetAuthenticatedClientFlow(c)
         \/ AuthenticateStart(c)
         \/ AuthenticateOpenBrowser(c)
         \/ AuthenticateSignalled(c)
         \/ AuthenticateTimeout(c)
         \/ AuthenticateFinally(c)
         \/ IsTokenValid(c)
         \/ GetTokenStatus(c)
         \/ GetKiteClientCall(c)
         \/ GetKiteClientReturn(c)
         \/ \E force \in BOOLEAN : AuthenticateCall(c, force)
         \/ AuthenticateReturn(c)
         \/ Return(c)
    \/ \E p \in Ports :
         \/ \E r \in Callbacks : Receive(p, r)
         \/ DoGet(p)
         \/ Exchange(p)
         \/ SignalComplete(p)
         \/ FlagSuccess(p)
    \/ Tick
    \/ StandaloneExchange

Spec == Init /\ [][Next]_vars

(***************************************************************************)
(* Input validation on its own: place_order entered with any request of    *)
(* AllRequests, with and without a bound client.                           *)
(***************************************************************************)
ValidationInit ==
    /\ tokens_file \in InitialTokenFiles
    /\ auth_manager = InitAuthManager
    /\ listeners = [p \in Ports |-> "free"]
    /\ kc \in BOOLEAN
    /\ order_log = <<>>
    /\ now = 0
    /\ is_docker \in BOOLEAN
    /\ handler = [p \in Ports |-> IdleHandler]
    /\ obs = NoObs
    /\ \E req \in AllRequests :
         call = [c \in Callers |->
                   IF c = "c1"
                   THEN [IdleFrame EXCEPT !.op = "place_order",
                                          !.pc = "po_validate",
                                          !.req = req, !.g.bound0 = kc]
                   ELSE [IdleFrame EXCEPT !.op = "off", !.pc = "off"]]

ValidationNext == \E c \in Callers : PlaceOrderValidate(c)

ValidationSpec == ValidationInit /\ [][ValidationNext]_vars

(***************************************************************************)
(* The callback listener on its own: a login attempt waits on the first    *)
(* port while the listener receives any request of AllCallbacks.           *)
(***************************************************************************)
WaitingFrame ==
    [Enter([IdleFrame EXCEPT !.op = "authenticate", !.force = TRUE],
           "afa", "auth_return")
        EXCEPT !.pc = "afa_wait", !.g.flow = TRUE]

CallbackInit ==
    /\ tokens_file \in InitialTokenFiles
    /\ auth_manager = [InitAuthManager EXCEPT !.server = Some(StartPort)]
    /\ listeners = [p \in Ports |-> IF p = StartPort THEN "serving" ELSE "free"]
    /\ kc = FALSE
    /\ order_log = <<>>
    /\ now = 0
    /\ is_docker = FALSE
    /\ handler = [p \in Ports |-> IdleHandler]
    /\ obs = NoObs
    /\ call = [c \in Callers |->
                 IF c = "c1" THEN WaitingFrame
                 ELSE [IdleFrame EXCEPT !.op = "off", !.pc = "off"]]

CallbackNext ==
    \E p \in Ports :
        \/ \E r \in AllCallbacks : Receive(p, r)
        \/ DoGet(p)
        \/ Exchange(p)
        \/ SignalComplete(p)
        \/ FlagSuccess(p)

CallbackSpec == CallbackInit /\ [][CallbackNext]_vars

(***************************************************************************)
(* Token validation on its own: is_token_valid on records with and         *)
(* without a token and an expiry, before, at and after the expiry.         *)
(***************************************************************************)
TokenFiles ==
    {NONE} \cup
    {Some(TokenRecord(t, NONE, e, 0)) :
        t \in {"", "atA"},
        e \in {NONE, Some(0), Some(ValidityHours), Some(2 * ValidityHours)}}

TokenInit ==
    /\ tokens_file \in TokenFiles
    /\ auth_manager \in {InitAuthManager,
                         [InitAuthManager EXCEPT !.kc_token = Some("atB")]}
    /\ listeners = [p \in Ports |-> "free"]
    /\ kc \in BOOLEAN
    /\ order_log = <<>>
    /\ now \in {0, ValidityHours}
    /\ is_docker = FALSE
    /\ handler = [p \in Ports |-> IdleHandler]
    /\ obs = NoObs
    /\ call = [c \in Callers |->
                 IF c = "c1" THEN IdleFrame
                 ELSE [IdleFrame EXCEPT !.op = "off", !.pc = "off"]]

TokenNext == \E c \in Callers : IsTokenValid(c) \/ Return(c)

TokenSpec == TokenInit /\ [][TokenNext]_vars

(***************************************************************************)
(* The status query on its own: get_token_status, once and twice in a row, *)
(* with nothing else running.                                              *)
(***************************************************************************)
StatusNext ==
    \E c \in Callers : GetTokenStatus(c) \/ GetTokenStatusAgain(c) \/ Return(c)

StatusSpec == TokenInit /\ [][StatusNext]_vars

(***************************************************************************)
(* The token store on its own: AutoAuthConfig.save_tokens and load_tokens  *)
(* on the text of data/kite_tokens.json.  In this specification            *)
(* tokens_file holds the file itself, NONE when it is missing and          *)
(* Some(text) otherwise; the other specifications hold the record          *)
(* load_tokens reads from it.  A text is a sequence of units: the          *)
(* characters of the string values, and one unit for each brace, comma,    *)
(* key with its colon, and null; white space is left out.                  *)
(***************************************************************************)
\* json.dump: the escapes of one character of a string
EscapeChar(ch) == IF ch \in {QUOTE, BACKSLASH} THEN <<BACKSLASH, ch>> ELSE <<ch>>

RECURSIVE Escape(_)
Escape(text) ==
    IF text = <<>> THEN <<>> ELSE EscapeChar(Head(text)) \o Escape(Tail(text))

JsonString(text) == <<QUOTE>> \o Escape(text) \o <<QUOTE>>

\* a string or None
JsonValue(o) == IF IsNone(o) THEN <<"null">> ELSE JsonString(Val(o))

\* json.dump(tokens, f, indent=2) of line 97
json_dump(tokens) ==
    <<"{", "access_token:">> \o JsonString(tokens.access_token)
    \o <<",", "refresh_token:">> \o JsonValue(tokens.refresh_token)
    \o <<",", "expires_at:">> \o JsonValue(tokens.expires_at)
    \o <<",", "generated_at:">> \o JsonString(tokens.generated_at)
    \o <<"}">>

\* json.load(f) of line 105 on the texts save_tokens writes and their
\* truncations: the record, or NONE where json.load raises
json_load(text) ==
    LET m1 == ScanMember(text, 1, "{", "access_token:")
        m2 == ScanMember(text, m1.next, ",", "refresh_token:")
        m3 == ScanMember(text, m2.next, ",", "expires_at:")
        m4 == ScanMember(text, m3.next, ",", "generated_at:")
    IN  IF /\ m1.ok /\ m2.ok /\ m3.ok /\ m4.ok
           /\ m4.next = Len(text)
           /\ text[m4.next] = "}"
        THEN \* a null where the record has a string reads as None
             Some(TokenRecord(IF IsNone(m1.val) THEN NONE ELSE Val(m1.val),
                              m2.val, m3.val,
                              IF IsNone(m4.val) THEN NONE ELSE Val(m4.val)))
        ELSE NONE

\* load_tokens, lines 100-108: no file, or an exception of open() or
\* json.load, gives None
load_tokens(file) == IF IsNone(file) THEN NONE ELSE json_load(Val(file))

\* open(self.tokens_file, 'w') opened for appending instead
WriteFile_Append(old, text) == old \o text

\* open(self.tokens_file, 'w') and what was written before the file closed
WriteFile(old, text) == text

\* datetime.isoformat(): the text of a time
isoformat(clock) == <<ToString(clock)>>

MaxTokenLen == 1
\* the token texts saved: letters, quotes and backslashes
StoreTexts ==
    UNION {[1..n -> {"a", QUOTE, BACKSLASH}] : n \in 0..MaxTokenLen}

StoreInit ==
    /\ tokens_file \in {NONE, Some(<<>>)}
    /\ auth_manager = InitAuthManager
    /\ listeners = [p \in Ports |-> "free"]
    /\ kc = FALSE
    /\ order_log = <<>>
    /\ now \in {0, ValidityHours}
    /\ is_docker = FALSE
    /\ handler = [p \in Ports |-> IdleHandler]
    /\ obs = NoObs
    /\ call = [c \in Callers |->
                 IF c = "c1" THEN IdleFrame
                 ELSE [IdleFrame EXCEPT !.op = "off", !.pc = "off"]]

\* save_tokens(access_token, refresh_token, expires_at), lines 88-98; the
\* write ends after `written` units, all of them when nothing fails
SaveTokens(c, access_token, refresh_token, expires_at) ==
    LET tokens == Val(save_tokens(access_token, refresh_token, expires_at,
                                  isoformat(now)))
        text == json_dump(tokens)
        old == IF IsNone(tokens_file) THEN <<>> ELSE Val(tokens_file)
    IN  /\ CanStart(c)
        /\ \E written \in 0..Len(text) :
             LET done == written = Len(text)
             IN  /\ tokens_file' = Some(WriteFile(old, SubSeq(text, 1, written)))
                 /\ SetFrame(c, [IdleFrame EXCEPT
                       !.op = "save_tokens", !.pc = "done",
                       !.ret = IF done THEN RetNone ELSE RetRaise(ERR_DISK),
                       !.g.saved = IF done THEN Some(tokens) ELSE NONE,
                       !.g.over = load_tokens(tokens_file)])
        /\ UNCHANGED <<auth_manager, listeners, kc, order_log, now, is_docker,
                       handler, obs>>

\* load_tokens(), from rest or right after a save
LoadTokens(c) ==
    LET f == Frame(c)
        after_save == f.op = "save_tokens" /\ f.pc = "done"
        tokens == load_tokens(tokens_file)
    IN  /\ CanStart(c) \/ after_save
        /\ SetFrame(c, [IdleFrame EXCEPT
                          !.op = "load_tokens", !.pc = "done",
                          !.ret = IF IsNone(tokens) THEN RetNone
                                  ELSE [NoRet EXCEPT !.kind = "record"],
                          !.g.tokens = tokens,
                          !.g.saved = IF after_save THEN f.g.saved ELSE NONE,
                          !.g.over = IF after_save THEN f.g.over ELSE NONE])
        /\ UNCHANGED <<tokens_file, auth_manager, listeners, kc, order_log,
                       now, is_docker, handler, obs>>

\* the file is removed between two operations
DeleteFile ==
    /\ \A c \in Callers : call[c].pc \in {"idle", "off"}
    /\ ~IsNone(tokens_file)
    /\ tokens_file' = NONE
    /\ UNCHANGED <<auth_manager, listeners, kc, order_log, now, is_docker,
                   call, handler, obs>>

StoreNext ==
    \/ \E c \in Callers :
         \/ \E access_token \in StoreTexts, refresh_token \in {NONE, Some(<<"a">>)},
               expires_at \in {NONE, Some(isoformat(now + ValidityHours))} :
                 SaveTokens(c, access_token, refresh_token, expires_at)
         \/ LoadTokens(c)
         \/ Return(c)
    \/ DeleteFile

StoreSpec == StoreInit /\ [][StoreNext]_vars

(***************************************************************************)
(* The login URL: get_login_url of the session manager and of the manual   *)
(* flow, asked by one caller before, while and after another caller runs   *)
(* the automated login.                                                    *)
(***************************************************************************)
\* an f-string field: str() of a text or of None
FormatValue(o) == IF IsNone(o) THEN <<"None">> ELSE Val(o)

\* FullyAutomatedKiteAuth.get_login_url, lines 335-339
get_login_url(config) ==
    <<"https://kite.trade/connect/login?api_key=", config.api_key,
      "&redirect_url=">> \o FormatValue(Some(config.redirect_url))

\* ManualKiteAuth.get_login_url, manual_auth.py lines 26-29
manual_get_login_url(config) ==
    <<"https://kite.trade/connect/login?api_key=", config.api_key,
      "&redirect_url=">> \o FormatValue(config.original_redirect_url)

GetLoginUrl(c) ==
    /\ CanStart(c)
    /\ SetFrame(c, [IdleFrame EXCEPT
                      !.op = "get_login_url", !.pc = "done",
                      !.result.url = get_login_url(auth_manager.config)])
    /\ UNCHANGED <<tokens_file, auth_manager, listeners, kc, order_log, now,
                   is_docker, handler, obs>>

\* ManualKiteAuth() loads the configuration the session manager loaded
ManualGetLoginUrl(c) ==
    /\ CanStart(c)
    /\ SetFrame(c, [IdleFrame EXCEPT
                      !.op = "manual_get_login_url", !.pc = "done",
                      !.result.url =
                          manual_get_login_url(
                              load_config(auth_manager.config.api_key,
                                  auth_manager.config.original_redirect_url))])
    /\ UNCHANGED <<tokens_file, auth_manager, listeners, kc, order_log, now,
                   is_docker, handler, obs>>

LoginUrlInit ==
    /\ tokens_file \in InitialTokenFiles
    /\ auth_manager \in
         {[InitAuthManager EXCEPT !.config = load_config(api_key, setting)] :
             api_key \in ApiKeys, setting \in RedirectSettings}
    /\ listeners = [p \in Ports |-> "free"]
    /\ kc = FALSE
    /\ order_log = <<>>
    /\ now = 0
    /\ is_docker \in BOOLEAN
    /\ handler = [p \in Ports |-> IdleHandler]
    /\ obs = NoObs
    /\ call = [c \in Callers |-> IdleFrame]

LoginUrlNext ==
    \/ \E force \in BOOLEAN : AuthenticateCall("c1", force)
    \/ AuthenticateStart("c1")
    \/ AuthenticateOpenBrowser("c1")
    \/ AuthenticateTimeout("c1")
    \/ AuthenticateFinally("c1")
    \/ AuthenticateReturn("c1")
    \/ GetLoginUrl("c2")
    \/ ManualGetLoginUrl("c2")
    \/ \E c \in Callers : Return(c)

LoginUrlSpec == LoginUrlInit /\ [][LoginUrlNext]_vars

(***************************************************************************)
(* The tools that hand the login URL to the user: get_kite_login_url and   *)
(* get_smart_auth_response of mcp_server.py.                               *)
(***************************************************************************)
\* GET /health on the callback server: a status code, or no answer
HealthAnswers == {"200", "500", "no answer"}

\* ensure_callback_server, mcp_server.py lines 64-78
ensure_callback_server(health) == health = "200"

\* the keyword parameters get_login_url(self) declares, line 335
LoginUrlKeywords == {}

\* auth_manager.get_login_url(**keywords): the URL, or no value when the
\* call raises TypeError for a keyword the method does not declare
call_get_login_url(config, keywords) ==
    IF keywords \subseteq LoginUrlKeywords
    THEN Some(get_login_url(config))
    ELSE NONE

\* mcp_server.py lines 83-117 and 150-176: both tools make the same steps
\* and differ in the wording around the URL
LoginUrlTool(c, tool, health) ==
    LET callback_available == ensure_callback_server(health)
        url == call_get_login_url(auth_manager.config,
                                  {"use_original_redirect"})
        f == [IdleFrame EXCEPT !.op = tool, !.pc = "done", !.g.gate = health]
    IN  /\ CanStart(c)
        /\ SetFrame(c,
              IF ~callback_available
              THEN [f EXCEPT !.result.status = "not available"]
              ELSE IF IsNone(url)
              THEN [f EXCEPT !.result.status = "failed",
                             !.result.error = <<"TypeError">>]
              ELSE [f EXCEPT !.result.status = "login",
                             !.result.url = Val(url)])
        /\ UNCHANGED <<tokens_file, auth_manager, listeners, kc, order_log, now,
                       is_docker, handler, obs>>

LoginTools == {"get_kite_login_url", "get_smart_auth_response"}

LoginToolNext ==
    \E c \in Callers :
        \/ \E tool \in LoginTools, health \in HealthAnswers :
              LoginUrlTool(c, tool, health)
        \/ Return(c)

LoginToolSpec == LoginUrlInit /\ [][LoginToolNext]_vars

(***************************************************************************)
(* trading.get_positions, with the session manager behind it.              *)
(***************************************************************************)
\* answers of the remote positions(): a falsy answer, and the "net" list
\* with no, one and two holdings
PositionAnswers ==
    {NONE, Some(<<>>),
     Some(<<[tradingsymbol |-> "INFY", quantity |-> 1, last_price |-> 10]>>),
     Some(<<[tradingsymbol |-> "INFY", quantity |-> 1, last_price |-> 10],
            [tradingsymbol |-> "TCS", quantity |-> 2, last_price |-> 20]>>)}

\* lines 402-403 with the join alone: no line for no holding
Render_JoinOnly(positions) ==
    IF IsNone(positions) THEN <<"No positions found.">>
    ELSE [i \in 1..Len(Val(positions)) |->
            <<"stock: ", Val(positions)[i].tradingsymbol,
              ", qty: ", ToString(Val(positions)[i].quantity),
              ", currentPrice: ", ToString(Val(positions)[i].last_price)>>]

\* lines 401-405: the text returned for an answer, as its lines
Render(positions) ==
    IF IsNone(positions) \/ Val(positions) = <<>>
    THEN <<"No positions found.">>
    ELSE [i \in 1..Len(Val(positions)) |->
            <<"stock: ", Val(positions)[i].tradingsymbol,
              ", qty: ", ToString(Val(positions)[i].quantity),
              ", currentPrice: ", ToString(Val(positions)[i].last_price)>>]

\* the text returned with an error in it
Message(status, error) ==
    [NoResult EXCEPT !.status = status, !.error = error,
                     !.text = <<status, error>>]

\* lines 387-398: the check for a bound client
GetPositionsCall(c) ==
    LET f == [IdleFrame EXCEPT !.op = "get_positions", !.g.bound0 = kc]
    IN  /\ CanStart(c)
        /\ IF ~kc
           THEN SetFrame(c, Enter([f EXCEPT !.auto = TRUE, !.g.n_gac = @ + 1],
                                  "gac", "gp_ensured"))
           ELSE SetFrame(c, [f EXCEPT !.pc = "gp_fetch"])
        /\ UNCHANGED <<tokens_file, auth_manager, listeners, kc, order_log,
                       now, is_docker, handler, obs>>

\* lines 396-398: get_authenticated_client came back
GetPositionsEnsured(c) ==
    LET f == Frame(c)
    IN  /\ f.pc = "gp_ensured"
        /\ IF f.ret.kind = "raise"
           THEN /\ SetFrame(c, Finish(f,
                      Message("Automatic authentication failed", f.ret.exc)))
                /\ kc' = kc
           ELSE /\ SetFrame(c, [f EXCEPT !.pc = "gp_fetch", !.ret = NoRet])
                /\ kc' = TRUE
        /\ UNCHANGED <<tokens_file, auth_manager, listeners, order_log, now,
                       is_docker, handler, obs>>

\* lines 400-410 and 422: the positions call
GetPositionsFetch(c) ==
    LET f == Frame(c)
        g == [f EXCEPT !.g.n_positions = @ + 1]
    IN  /\ f.pc = "gp_fetch"
        /\ \/ \E positions \in PositionAnswers :
                /\ SetFrame(c, Finish([g EXCEPT !.g.sub1 = "returned",
                                                !.g.answer = positions],
                       [Outcome("positions") EXCEPT !.text = Render(positions)]))
                /\ kc' = kc
           \/ \E e \in RemoteErrors :
                IF is_token_expired_error(e)
                THEN /\ kc' = FALSE
                     /\ SetFrame(c, Enter([g EXCEPT !.auto = TRUE,
                                                    !.g.n_gac = @ + 1,
                                                    !.g.sub1 = "auth_error"],
                                          "gac", "gp_retry"))
                ELSE /\ kc' = kc
                     /\ SetFrame(c, Finish([g EXCEPT !.g.sub1 = "other_error"],
                            Message("Error fetching positions", e)))
        /\ UNCHANGED <<tokens_file, auth_manager, listeners, order_log, now,
                       is_docker, handler, obs>>

\* lines 411-421: the client of the re-authentication and the one retry
GetPositionsRetry(c) ==
    LET f == Frame(c)
        g == [f EXCEPT !.g.n_positions = @ + 1, !.g.reauth = "returned"]
    IN  /\ f.pc = "gp_retry"
        /\ IF f.ret.kind = "raise"
           THEN /\ SetFrame(c, Finish([f EXCEPT !.g.reauth = "raised"],
                      Message("Automatic re-authentication failed", f.ret.exc)))
                /\ kc' = kc
           ELSE /\ kc' = TRUE
                /\ \/ \E positions \in PositionAnswers :
                        SetFrame(c, Finish([g EXCEPT !.g.sub2 = "returned",
                                                    !.g.answer = positions],
                           [Outcome("positions") EXCEPT !.text = Render(positions)]))
                   \/ \E e \in RemoteErrors :
                        SetFrame(c, Finish([g EXCEPT !.g.sub2 = "raised"],
                           Message("Automatic re-authentication failed", e)))
        /\ UNCHANGED <<tokens_file, auth_manager, listeners, order_log, now,
                       is_docker, handler, obs>>

PositionsNext ==
    \/ \E c \in Callers :
         \/ GetPositionsCall(c)
         \/ GetPositionsEnsured(c)
         \/ GetPositionsFetch(c)
         \/ GetPositionsRetry(c)
         \/ GetAuthenticatedClient(c)
         \/ GetAuthenticatedClientFlow(c)
         \/ AuthenticateStart(c)
         \/ AuthenticateOpenBrowser(c)
         \/ AuthenticateSignalled(c)
         \/ AuthenticateTimeout(c)
         \/ AuthenticateFinally(c)
         \/ Return(c)
    \/ \E p \in Ports :
         \/ \E r \in Callbacks : Receive(p, r)
         \/ DoGet(p)
         \/ Exchange(p)
         \/ SignalComplete(p)
         \/ FlagSuccess(p)
    \/ Tick

PositionsSpec == Init /\ [][PositionsNext]_vars

(***************************************************************************)
(* Construction: AutoAuthConfig.load_config behind                         *)
(* FullyAutomatedKiteAuth(), and UnifiedAuthManager() in front of it.      *)
(***************************************************************************)
\* Python's truth of a setting: None and the empty string are false
Truthy(o) == ~IsNone(o) /\ Val(o) # ""

\* os.getenv of the three variables
Environments ==
    [api_key : {NONE, Some(""), Some("keyA")},
     api_secret : {NONE, Some("secA")},
     redirect_url : RedirectSettings]

\* kite_auth_config.json: missing, not JSON, or an object with some fields
ConfigFiles ==
    {NONE} \cup
    {Some([json |-> FALSE, api_key |-> NONE, api_secret |-> NONE,
           redirect_url |-> NONE])} \cup
    {Some([json |-> TRUE, api_key |-> k, api_secret |-> x, redirect_url |-> r]) :
        k \in {NONE, Some("keyB")}, x \in {NONE, Some("secB")},
        r \in {NONE, Some(<<"https://", "example.org", "/cb">>)}}

\* load_config, lines 46-86: the configuration, or the exception raised
LoadedConfig(env, file) ==
    LET fallback == ~(Truthy(env.api_key) /\ Truthy(env.api_secret))
        api_key == IF fallback /\ ~Truthy(env.api_key)
                   THEN Val(file).api_key ELSE env.api_key
        api_secret == IF fallback /\ ~Truthy(env.api_secret)
                      THEN Val(file).api_secret ELSE env.api_secret
        original_redirect_url ==
            IF fallback /\ env.redirect_url \in {NONE, Some(<<>>)}
            THEN Val(file).redirect_url ELSE env.redirect_url
    IN  IF fallback /\ IsNone(file)
        THEN [ok |-> FALSE, error |-> "FileNotFoundError",
              config |-> load_config("", NONE)]
        ELSE IF fallback /\ ~Val(file).json
        THEN [ok |-> FALSE, error |-> "JSONDecodeError",
              config |-> load_config("", NONE)]
        ELSE IF ~Truthy(api_key) \/ ~Truthy(api_secret)
        THEN [ok |-> FALSE, error |-> "ValueError",
              config |-> load_config("", NONE)]
        ELSE [ok |-> TRUE, error |-> "",
              config |-> load_config(Val(api_key), original_redirect_url)]

\* FullyAutomatedKiteAuth(), lines 283-289
Construct(c, env, file) ==
    LET loaded == LoadedConfig(env, file)
        f == [IdleFrame EXCEPT !.op = "FullyAutomatedKiteAuth", !.pc = "done",
                               !.g.env = Some(env), !.g.config_file = file]
    IN  /\ CanStart(c)
        /\ IF loaded.ok
           THEN /\ auth_manager' = [InitAuthManager EXCEPT !.config = loaded.config]
                /\ SetFrame(c, [f EXCEPT !.ret = RetClient])
           ELSE /\ UNCHANGED auth_manager
                /\ SetFrame(c, [f EXCEPT !.ret = RetRaise(<<loaded.error>>)])
        /\ UNCHANGED <<tokens_file, listeners, kc, order_log, now, is_docker,
                       handler, obs>>

\* UnifiedAuthManager(), auth_manager.py lines 22-32
ConstructUnified(c, env, file) ==
    LET loaded == LoadedConfig(env, file)
        f == [IdleFrame EXCEPT !.op = "UnifiedAuthManager", !.pc = "done",
                               !.g.env = Some(env), !.g.config_file = file]
    IN  /\ CanStart(c)
        /\ IF ~Truthy(env.api_key) \/ ~Truthy(env.api_secret)
           THEN /\ UNCHANGED auth_manager
                /\ SetFrame(c, [f EXCEPT !.ret = RetRaise(<<"ValueError">>)])
           ELSE IF loaded.ok
           THEN /\ auth_manager' = [InitAuthManager EXCEPT !.config = loaded.config]
                /\ SetFrame(c, [f EXCEPT !.ret = RetClient])
           ELSE /\ UNCHANGED auth_manager
                /\ SetFrame(c, [f EXCEPT !.ret = RetRaise(<<loaded.error>>)])
        /\ UNCHANGED <<tokens_file, listeners, kc, order_log, now, is_docker,
                       handler, obs>>

ConfigNext ==
    \E c \in Callers :
        \/ \E env \in Environments, file \in ConfigFiles :
             Construct(c, env, file) \/ ConstructUnified(c, env, file)
        \/ Return(c)

ConfigSpec == Init /\ [][ConfigNext]_vars

(***************************************************************************)
(* The tool layer: mcp_server.buy_stock, sell_stock and show_portfolio in  *)
(* front of place_order and get_positions.  mcp_server has a session       *)
(* manager of its own: its get_token_status reads the shared token file    *)
(* and binds the token to its own client, not to the order engine's.       *)
(***************************************************************************)
\* the stock argument with its Python type; str |-> FALSE is not a string
ToolStocks == {[str |-> TRUE, v |-> ""], [str |-> TRUE, v |-> " "],
               [str |-> TRUE, v |-> " infy "], [str |-> FALSE, v |-> ""]}

\* stock.upper().strip() on the texts above
UpperStrip(v) == IF v = " infy " THEN "INFY" ELSE IF v = " " THEN "" ELSE v

\* the gate with only an expired token turned away
Gated_ExpiredOnly(status) == status = "expired"

\* lines 182-183, 211-212, 240-241: auth_status["status"] != "valid"
Gated(status) == status # "valid"

\* lines 178-197, 207-226, 236-244: the status check, the input checks and
\* the call of place_order or get_positions
ToolCall(c, tool, stock, qty) ==
    LET tokens == tokens_file
    IN  /\ CanStart(c)
        /\ \E probe \in Probes :
             LET status == TokenStatus(tokens, is_token_valid(tokens, now, probe))
                 f == [IdleFrame EXCEPT !.op = tool, !.g.tool = tool,
                                        !.g.gate = status, !.g.bound0 = kc]
                 answer(text) == [f EXCEPT !.pc = "done", !.result.status = text,
                                           !.result.text = <<text>>]
             IN  IF Gated(status)
                 THEN SetFrame(c, answer("authentication_response"))
                 ELSE IF tool = "show_portfolio"
                 THEN LET g == [f EXCEPT !.op = "get_positions",
                                         !.g.inner = "get_positions"]
                      IN  IF ~kc
                          THEN SetFrame(c, Enter([g EXCEPT !.auto = TRUE,
                                                           !.g.n_gac = @ + 1],
                                                 "gac", "gp_ensured"))
                          ELSE SetFrame(c, [g EXCEPT !.pc = "gp_fetch"])
                 ELSE IF stock.v = "" \/ ~stock.str
                 THEN SetFrame(c, answer("Invalid stock symbol"))
                 ELSE IF ~qty.int \/ qty.v <= 0
                 THEN SetFrame(c, answer("Invalid quantity"))
                 ELSE SetFrame(c, [f EXCEPT
                        !.op = "place_order", !.pc = "po_validate",
                        !.g.inner = "place_order",
                        !.req = Req(UpperStrip(stock.v), qty.v,
                                    IF tool = "buy_stock" THEN "BUY" ELSE "SELL",
                                    "MARKET", NONE, NONE)])
        /\ UNCHANGED <<tokens_file, auth_manager, listeners, kc, order_log,
                       now, is_docker, handler, obs>>

\* lines 199-204, 228-233, 244-248: the tool's answer once place_order or
\* get_positions is over
ToolReturn(c) ==
    LET f == Frame(c)
        text == IF f.op = "get_positions" THEN f.result.status
                ELSE IF f.result.status = "raised"
                THEN IF is_token_expired_error(f.result.error)
                     THEN "authentication_response" ELSE "order failed"
                ELSE IF f.result.status = "success" THEN "Order Successful"
                ELSE IF f.result.status = "validation_error" THEN "Validation Error"
                ELSE "Order Failed"
    IN  /\ f.pc = "done"
        /\ f.op \in {"place_order", "get_positions"}
        /\ f.g.tool # ""
        /\ SetFrame(c, [f EXCEPT !.op = f.g.tool, !.result.status = text,
                                 !.result.text =
                                    IF f.op = "get_positions" THEN @ ELSE <<text>>])
        /\ UNCHANGED <<tokens_file, auth_manager, listeners, kc, order_log,
                       now, is_docker, handler, obs>>

ToolNext ==
    \/ \E c \in Callers :
         \/ \E tool \in {"buy_stock", "sell_stock", "show_portfolio"},
               stock \in ToolStocks, qty \in Quantities :
              ToolCall(c, tool, stock, qty)
         \/ ToolReturn(c)
         \/ PlaceOrderValidate(c)
         \/ PlaceOrderEnsured(c)
         \/ PlaceOrderSubmit(c)
         \/ PlaceOrderStatus(c)
         \/ PlaceOrderLogSuccess(c)
         \/ PlaceOrderExcept(c)
         \/ PlaceOrderRetry(c)
         \/ PlaceOrderFailed(c)
         \/ GetPositionsEnsured(c)
         \/ GetPositionsFetch(c)
         \/ GetPositionsRetry(c)
         \/ GetAuthenticatedClient(c)
         \/ GetAuthenticatedClientFlow(c)
         \/ AuthenticateStart(c)
         \/ AuthenticateOpenBrowser(c)
         \/ AuthenticateSignalled(c)
         \/ AuthenticateTimeout(c)
         \/ AuthenticateFinally(c)
         \/ Return(c)
    \/ \E p \in Ports :
         \/ \E r \in Callbacks : Receive(p, r)
         \/ DoGet(p)
         \/ Exchange(p)
         \/ SignalComplete(p)
         \/ FlagSuccess(p)

ToolSpec == Init /\ [][ToolNext]_vars

(***************************************************************************)
(* manual_auth.ManualKiteAuth.authenticate_with_request_token, with its    *)
(* own client, writing the token file the session manager reads.  A value  *)
(* of the record that is not a string is held as the text the client puts *)
(* in its Authorization header for it.                                     *)
(***************************************************************************)
\* manual_auth.py:57-62: the dict handed to save_tokens as its first argument
TokenData(access_token) == "{'access_token': '" \o access_token \o "', ...}"

\* the remote answers a profile() request as it likes for a token it
\* issued and refuses any other header
RemoteProfile(token, probe) ==
    IF token \in {data.access_token : data \in Sessions} \ {""}
    THEN probe ELSE "error"

\* manual_auth.py:49-97
ManualAuthenticate(c) ==
    LET f == [IdleFrame EXCEPT !.op = "authenticate_with_request_token",
                               !.g.bound0 = kc]
    IN  /\ CanStart(c)
        /\ \/ \* generate_session raises
              /\ SetFrame(c, Finish(f, Outcome("False")))
              /\ UNCHANGED tokens_file
           \/ \E data \in Sessions, saved \in {"saved", "not opened", "truncated"},
                 probe \in Probes :
                LET profile == RemoteProfile(data.access_token, probe)
                    written == save_tokens(TokenData(data.access_token),
                                           NONE, NONE, now)
                    g == [f EXCEPT !.g.saved = written, !.g.probe = profile]
                IN  IF saved = "saved"
                    THEN /\ tokens_file' = written
                         /\ SetFrame(c, Finish(g,
                              [Outcome(IF profile = "error" THEN "False"
                                       ELSE "True")
                                 EXCEPT !.token = data.access_token]))
                    ELSE /\ tokens_file' = IF saved = "truncated" THEN NONE
                                           ELSE tokens_file
                         /\ SetFrame(c, Finish(f, Outcome("False")))
        /\ UNCHANGED <<auth_manager, listeners, kc, order_log, now, is_docker,
                       handler, obs>>

ManualNext ==
    \/ \E c \in Callers : ManualAuthenticate(c) \/ IsTokenValid(c) \/ Return(c)
    \/ Tick
    \/ StandaloneExchange

ManualSpec == Init /\ [][ManualNext]_vars

(***************************************************************************)
(* stop_auth_server called on its own, before any login flow and after     *)
(* one.                                                                    *)
(***************************************************************************)
\* the HTTPServer self.server refers to: none, one whose serve_forever is
\* running, or one whose serve_forever has ended
ServerState(am, ls) ==
    IF IsNone(am.server) THEN "none"
    ELSE IF ls[Val(am.server)] = "serving" THEN "serving" ELSE "shut down"

\* a shutdown() that waits although serve_forever has ended
shutdown_waits_Ended(state, busy) == state = "shut down" \/ busy

\* line 329: shutdown() waits while serve_forever handles a request
shutdown_waits(state, busy) == state = "serving" /\ busy

\* a caller starts stop_auth_server
StopCall(c) ==
    /\ CanStart(c)
    /\ SetFrame(c, [IdleFrame EXCEPT !.op = "stop_auth_server", !.pc = "stop",
                                     !.g.prev = ServerState(auth_manager,
                                                            listeners)])
    /\ UNCHANGED <<tokens_file, auth_manager, listeners, kc, order_log, now,
                   is_docker, handler, obs>>

\* lines 326-333
StopAuthServer(c) ==
    LET f == Frame(c)
        server == auth_manager.server
        state == ServerState(auth_manager, listeners)
        busy == ~IsNone(server) /\ handler[Val(server)].pc # "idle"
    IN  /\ f.pc = "stop"
        /\ IF IsNone(server) THEN TRUE ELSE ~shutdown_waits(state, busy)
        /\ listeners' = StoppedListeners(listeners, server)
        /\ handler' = IF IsNone(server) THEN handler
                      ELSE [handler EXCEPT ![Val(server)] = IdleHandler]
        /\ SetFrame(c, Finish(f, Outcome("returned")))
        /\ UNCHANGED <<tokens_file, auth_manager, kc, order_log, now,
                       is_docker, obs>>

StopNext ==
    \/ \E c \in Callers :
         \/ \E force \in BOOLEAN : AuthenticateCall(c, force)
         \/ AuthenticateStart(c)
         \/ AuthenticateOpenBrowser(c)
         \/ AuthenticateSignalled(c)
         \/ AuthenticateTimeout(c)
         \/ AuthenticateFinally(c)
         \/ AuthenticateReturn(c)
         \/ StopCall(c)
         \/ StopAuthServer(c)
         \/ Return(c)
    \/ \E p \in Ports :
         \/ \E r \in Callbacks : Receive(p, r)
         \/ DoGet(p)
         \/ Exchange(p)
         \/ SignalComplete(p)
         \/ FlagSuccess(p)

StopSpec == Init /\ [][StopNext]_vars

(***************************************************************************)
(* Two threads of one process calling get_positions on the one session     *)
(* manager: no lock guards get_authenticated_client or the flow.           *)
(***************************************************************************)
ConcurrentInit ==
    /\ BaseInit
    /\ call = [c \in Callers |-> IdleFrame]

\* no callback arrives: every flow ends by its timeout
ConcurrentNext ==
    \E c \in Callers :
        \/ GetPositionsCall(c)
        \/ GetPositionsEnsured(c)
        \/ GetPositionsFetch(c)
        \/ GetPositionsRetry(c)
        \/ GetAuthenticatedClient(c)
        \/ GetAuthenticatedClientFlow(c)
        \/ AuthenticateStart(c)
        \/ AuthenticateOpenBrowser(c)
        \/ AuthenticateTimeout(c)
        \/ AuthenticateFinally(c)
        \/ Return(c)

ConcurrentSpec == ConcurrentInit /\ [][ConcurrentNext]_vars

(***************************************************************************)
(* The failed path of place_order on its own: a bound client whose         *)
(* place_order raises errors that are not authentication-classified, with  *)
(* and without a JSON object as their text.                                *)
(***************************************************************************)
\* texts of the errors raised: JSON objects, braces around no JSON, and a
\* plain text
SubmissionErrors ==
    << <<"{", "error_type:", QUOTE, "I", QUOTE, ",",
              "message:", QUOTE, "m", QUOTE, "}">>,
       <<"{", "status:", QUOTE, "e", QUOTE, ",",
              "error:", QUOTE, "x", QUOTE, "}">>,
       <<"{", "error_type:", QUOTE, "I", QUOTE, ",",
              "status:", QUOTE, "e", QUOTE, ",",
              "message:", QUOTE, "m", QUOTE, ",",
              "error:", QUOTE, "x", QUOTE, ",",
              "data:", "{", "rejection_reason:", QUOTE, "r", QUOTE, "}", "}">>,
       <<"{", "message:", QUOTE, "m", QUOTE, ",",
              "data:", "{", "rejection_reason:", QUOTE, "r", QUOTE, "}", "}">>,
       <<"{", "message:", QUOTE, "m", QUOTE, ",", "data:", "null", "}">>,
       <<"{", "b", "a", "d", "}">>,
       ERR_NET >>

FailedInit ==
    /\ tokens_file \in InitialTokenFiles
    /\ auth_manager = InitAuthManager
    /\ listeners = [p \in Ports |-> "free"]
    /\ kc = TRUE
    /\ order_log = <<>>
    /\ now = 0
    /\ is_docker \in BOOLEAN
    /\ handler = [p \in Ports |-> IdleHandler]
    /\ obs = NoObs
    /\ call = [c \in Callers |-> IF c = "c1" THEN IdleFrame
                                 ELSE [IdleFrame EXCEPT !.op = "off", !.pc = "off"]]

FailedNext ==
    \E c \in Callers :
        \/ \E req \in Requests : PlaceOrderCall(c, req)
        \/ PlaceOrderValidate(c)
        \/ Submit(c, {SubmissionErrors[i] : i \in DOMAIN SubmissionErrors})
        \/ PlaceOrderExcept(c)
        \/ PlaceOrderFailed(c)
        \/ Return(c)

FailedSpec == FailedInit /\ [][FailedNext]_vars

(***************************************************************************)
(* The automated login while other processes hold ports of the range.      *)
(***************************************************************************)
\* another process binds a port of the range
OtherBinds(p) ==
    /\ listeners[p] = "free"
    /\ listeners' = [listeners EXCEPT ![p] = "taken"]
    /\ UNCHANGED <<tokens_file, auth_manager, kc, order_log, now, is_docker,
                   handler, obs, call>>

\* and closes it
OtherCloses(p) ==
    /\ listeners[p] = "taken"
    /\ listeners' = [listeners EXCEPT ![p] = "free"]
    /\ UNCHANGED <<tokens_file, auth_manager, kc, order_log, now, is_docker,
                   handler, obs, call>>

PortInit ==
    /\ tokens_file \in InitialTokenFiles
    /\ auth_manager = InitAuthManager
    /\ listeners \in [Ports -> {"free", "taken"}]
    /\ kc = FALSE
    /\ order_log = <<>>
    /\ now = 0
    /\ is_docker \in BOOLEAN
    /\ handler = [p \in Ports |-> IdleHandler]
    /\ obs = NoObs
    /\ call = [c \in Callers |-> IF c = "c1" THEN IdleFrame
                                 ELSE [IdleFrame EXCEPT !.op = "off", !.pc = "off"]]

PortNext ==
    \/ \E c \in Callers :
         \/ \E force \in BOOLEAN : AuthenticateCall(c, force)
         \/ AuthenticateStart(c)
         \/ AuthenticateOpenBrowser(c)
         \/ AuthenticateTimeout(c)
         \/ AuthenticateFinally(c)
         \/ AuthenticateReturn(c)
         \/ Return(c)
    \/ \E p \in Ports : OtherBinds(p) \/ OtherCloses(p)

PortSpec == PortInit /\ [][PortNext]_vars

(***************************************************************************)
(* place_order once a record with a token the remote accepts is persisted: *)
(* the client is unbound, or bound to an earlier token the remote no       *)
(* longer accepts.                                                         *)
(***************************************************************************)
STALE_TOKEN == "at0"

RecoverInit ==
    /\ tokens_file \in {t \in InitialTokenFiles : TokenLive(t, 0)}
    /\ kc \in BOOLEAN
    /\ auth_manager = [InitAuthManager EXCEPT
                         !.kc_token = IF kc THEN Some(STALE_TOKEN) ELSE NONE]
    /\ listeners = [p \in Ports |-> "free"]
    /\ order_log = <<>>
    /\ now = 0
    /\ is_docker \in BOOLEAN
    /\ handler = [p \in Ports |-> IdleHandler]
    /\ obs = NoObs
    /\ call = [c \in Callers |-> IF c = "c1" THEN IdleFrame
                                 ELSE [IdleFrame EXCEPT !.op = "off", !.pc = "off"]]

RecoverNext ==
    \E c \in Callers :
        \/ \E req \in Requests : PlaceOrderCall(c, req)
        \/ PlaceOrderValidate(c)
        \/ ValidatedClient(c, {"profile"})
        \/ PlaceOrderEnsured(c)
        \/ PlaceOrderSubmit(c)
        \/ PlaceOrderStatus(c)
        \/ PlaceOrderLogSuccess(c)
        \/ PlaceOrderExcept(c)
        \/ PlaceOrderRetry(c)
        \/ PlaceOrderFailed(c)
        \/ Return(c)

RecoverSpec == RecoverInit /\ [][RecoverNext]_vars

(***************************************************************************)
(* Properties.                                                             *)
(***************************************************************************)
\* no remote call, no authentication and no log line in this call so far
NothingDone(g) ==
    /\ g.n_place = 0 /\ g.n_orders = 0 /\ g.n_profile = 0
    /\ g.n_gac = 0 /\ g.n_log = 0 /\ g.logged = <<>>
    /\ ~g.flow

\* C3: a place_order whose quantity is 0 or negative ends at once with
\* status "validation_error": the step that reads the request makes no
\* remote call, starts no authentication, appends no log line and leaves
\* the bound client, the session manager, the token file and the
\* listeners as they were.
C3_NonPositiveQuantityRejected ==
    [][\A c \in Callers :
         (/\ call[c].pc = "po_validate"
          /\ call[c].req.quantity.v <= 0
          /\ call'[c] # call[c])
         => /\ call'[c].pc = "done"
            /\ call'[c].result.status = "validation_error"
            /\ NothingDone(call'[c].g)
            /\ UNCHANGED <<tokens_file, auth_manager, listeners, kc,
                           order_log, handler>>]_vars

C3_Witness ==
    \E c \in Callers :
        /\ call[c].op = "place_order" /\ call[c].pc = "done"
        /\ call[c].req.quantity = [int |-> TRUE, v |-> 0]
        /\ call[c].req.tradingsymbol # ""
        /\ call[c].result.status = "validation_error"
        /\ call[c].result.reason = "Invalid quantity"

\* the requests C4 lists as rejected
C4_Listed(req) ==
    \/ req.tradingsymbol = ""
    \/ ~(req.quantity.int /\ req.quantity.v > 0)
    \/ req.transaction_type \notin {"BUY", "SELL"}
    \/ req.exchange \notin {"NSE", "BSE", "NFO", "CDS", "MCX"}
    \/ /\ req.order_type \in {"LIMIT", "SL"}
       /\ (IsNone(req.price) \/ Val(req.price) <= 0)
    \/ /\ req.order_type \in {"SL", "SL-M"}
       /\ (IsNone(req.trigger_price) \/ Val(req.trigger_price) <= 0)

Placed(c) == call[c].op = "place_order" /\ call[c].pc = "done"

\* C1: when the first submission of a validated order on a bound client
\* raises an error whose text contains "token" or "auth", place_order asks
\* for a client with auto_authenticate exactly once and, when that succeeds,
\* submits exactly once more; a re-submission that returns gives "success",
\* a re-authentication or re-submission that raises gives
\* "authentication_error".
C1_RetryOutcome ==
    \A c \in Callers :
        (Placed(c) /\ call[c].g.bound0 /\ call[c].g.sub1 = "auth_error")
        => /\ call[c].g.n_gac = 1
           /\ call[c].g.reauth = "returned" => call[c].g.n_place = 2
           /\ call[c].g.reauth = "raised" => call[c].g.n_place = 1
           /\ call[c].g.sub2 = "returned"
                => call[c].result.status = "success"
           /\ (call[c].g.reauth = "raised" \/ call[c].g.sub2 = "raised")
                => call[c].result.status = "authentication_error"

\* C2: one place_order call submits at most twice and re-authenticates
\* after a submission error at most once; it submits a second time only
\* after the first submission failed with an authentication-classified
\* error, and a failure of the second submission ends the call.
C2_AtMostOneRetry ==
    \A c \in Callers :
        call[c].op = "place_order"
        => /\ call[c].g.n_place <= 2
           /\ call[c].g.n_gac <= (IF call[c].g.bound0 THEN 1 ELSE 2)
           /\ call[c].g.n_place = 2 => call[c].g.sub1 = "auth_error"
           /\ call[c].g.sub2 = "raised"
                => /\ call[c].pc = "done"
                   /\ call[c].g.n_place = 2
                   /\ call[c].result.status = "authentication_error"

\* the kinds of the log lines a call appended
Kinds(logged) == [i \in 1..Len(logged) |-> logged[i].kind]

\* C5: when the submission returned an order id and the order list shows
\* that id as REJECTED or CANCELLED, place_order returns
\* "placed_but_rejected" with that id and the rejection reason, and the call
\* appends exactly one log line, of kind PLACED_BUT_REJECTED.
C5_RejectedAfterPlacement ==
    \A c \in Callers :
        (Placed(c) /\ call[c].g.lookup \in {"REJECTED", "CANCELLED"})
        => /\ call[c].result.status = "placed_but_rejected"
           /\ call[c].result.order_id = call[c].g.placed_id
           /\ call[c].result.rejection_reason = call[c].g.reason
           /\ Kinds(call[c].g.logged) = <<"PLACED_BUT_REJECTED">>

\* C6: every exchange_request_token call sets the completion signal exactly
\* once, so that the signal is set when it returns, and returns a boolean:
\* true only when generate_session gave an access token, false when the
\* answer had none or the call raised.
C6_ExchangeSignalsOnce ==
    \A p \in Ports :
        LET h == handler[p]
        IN  /\ h.sets <= 1
            /\ (h.exchanged /\ h.pc = "idle")
                 => /\ h.sets = 1
                    /\ auth_manager.auth_complete
                    /\ h.returned \in {Some(TRUE), Some(FALSE)}
                    /\ h.returned = Some(TRUE) => h.session = "token"
                    /\ h.session \in {"empty", "raised"}
                         => h.returned = Some(FALSE)

C6_Witness ==
    \E p \in Ports :
        /\ handler[p].exchanged /\ handler[p].pc = "idle"
        /\ handler[p].session = "raised"
        /\ handler[p].returned = Some(FALSE)
        /\ handler[p].sets = 1

\* C7: no callback runs on a listener that was stopped, and the waiter of a
\* login attempt is never released by a completion signal set before the
\* attempt started.
C7_SignalPerAttempt ==
    /\ \A p \in Ports : handler[p].pc # "idle" => listeners[p] = "serving"
    /\ \A c \in Callers : ~call[c].g.stale_signal

\* the requests C8 lets through to the token exchange
C8_Accepted(r) ==
    /\ r.path = "/callback"
    /\ ~IsNone(r.request_token)
    /\ isalnum(Val(r.request_token))
    /\ Len(Val(r.request_token)) >= 10
    /\ r.action = Some("login")
    /\ r.status = Some("success")

\* C8: the listener calls exchange_request_token for a request exactly when
\* its path is /callback, its request_token is present, alphanumeric and at
\* least 10 characters long, its action is "login" and its status is
\* "success"; a request without a request_token, or with one that fails the
\* format check, is answered with 400, reaches no exchange and sets no
\* completion signal.
C8_ExchangeOnlyForWellFormedCallback ==
    \A p \in Ports :
        LET h == handler[p]
            r == h.req
            malformed == \/ IsNone(r.request_token)
                         \/ ~isalnum(Val(r.request_token))
                         \/ Len(Val(r.request_token)) < 10
        IN  (r # NoCallback /\ h.pc # "do_GET")
            => /\ h.exchanged <=> C8_Accepted(r)
               /\ malformed => /\ h.pc = "idle"
                               /\ h.response = 400
                               /\ ~h.exchanged
                               /\ h.sets = 0
                               /\ IsNone(h.returned)

C8_Witness ==
    \E p \in Ports :
        /\ handler[p].req = Callback(Some(RT_LEN5), "login")
        /\ handler[p].pc = "idle"
        /\ handler[p].response = 400
        /\ ~handler[p].exchanged
        /\ ~auth_manager.auth_complete

\* C9: is_token_valid returns a boolean; it returns false when the record
\* is absent, its access_token is empty, its expires_at is set and the
\* clock is at or after it, or the profile probe fails or returns nothing;
\* it returns true only after a profile probe that succeeded on a client
\* bound to the record's access token.
C9_TokenValidity ==
    \A c \in Callers :
        (call[c].op = "is_token_valid" /\ call[c].pc = "done")
        => LET g == call[c].g
               t == g.tokens
               result == call[c].result.status
           IN  /\ result \in {"True", "False"}
               /\ (\/ IsNone(t)
                   \/ Val(t).access_token = ""
                   \/ /\ ~IsNone(Val(t).expires_at)
                      /\ g.clock >= Val(Val(t).expires_at)
                   \/ g.probe \in {"empty", "error"})
                    => result = "False"
               /\ result = "True"
                    => /\ g.probe = "profile"
                       /\ g.client_token = Some(Val(t).access_token)

C9_Witness ==
    \E c \in Callers :
        /\ call[c].op = "is_token_valid" /\ call[c].pc = "done"
        /\ ~IsNone(call[c].g.tokens)
        /\ Val(call[c].g.tokens).access_token # ""
        /\ Val(call[c].g.tokens).expires_at = Some(call[c].g.clock)
        /\ call[c].result.status = "False"

\* the record and the probe C10 calls a validating record
C10_Validates(g) ==
    /\ ~IsNone(g.tokens)
    /\ Val(g.tokens).access_token # ""
    /\ ~(/\ ~IsNone(Val(g.tokens).expires_at)
         /\ g.clock >= Val(Val(g.tokens).expires_at))
    /\ g.probe = "profile"

\* C10: get_authenticated_client(auto_authenticate=False) returns the
\* client, bound to the persisted access token, exactly when the persisted
\* record validates, and raises TokenExpiredException otherwise; none of its
\* steps starts a login flow, a listener or a token exchange, or changes
\* the persisted record.
C10_NoLoginWithoutAutoAuthenticate ==
    [][\A c \in Callers :
         (call'[c] # call[c] /\ call'[c].op = "get_kite_client")
         => /\ UNCHANGED <<tokens_file, listeners, handler>>
            /\ call'[c].pc \in {"gac", "gkc_return", "done"}
            /\ ~call'[c].g.flow
            /\ call'[c].pc = "done"
                 => LET g == call'[c].g
                        r == call'[c].result
                    IN  /\ r.status \in {"returned", "raised"}
                        /\ r.status = "returned" <=> C10_Validates(g)
                        /\ r.status = "returned"
                             => /\ kc'
                                /\ g.client_token
                                     = Some(Val(g.tokens).access_token)
                        /\ r.status = "raised" => r.error = EXC_EXPIRED]_vars

C10_Witness ==
    \E c \in Callers :
        /\ call[c].op = "get_kite_client" /\ call[c].pc = "done"
        /\ call[c].result.status = "raised"
        /\ call[c].result.error = EXC_EXPIRED
        /\ ~IsNone(call[c].g.tokens)
        /\ call[c].g.probe = "error"

\* C11: get_authenticated_client(auto_authenticate=True) gives its caller
\* the client or an exception, and a client it bound to the token of the
\* forced flow is bound to a token that an exchange made during that flow
\* produced.
C11_FlowClientFromOwnExchange ==
    \A c \in Callers :
        /\ (call[c].pc \in {"po_ensured", "po_retry"})
             => call[c].ret.kind \in {"client", "raise"}
        /\ call[c].g.bound_by_flow => call[c].g.flow_exchanged

\* C12: authenticate_fully_automated(force=False) on a persisted record
\* with a token that has not expired puts the token to the profile probe
\* and, when the remote accepts it, returns that token in the same step,
\* with no listener started; with force=True the first step never returns
\* a token.
C12_ValidTokenSkipsFlow ==
    [][\A c \in Callers :
         (/\ call[c].op = "authenticate" /\ call[c].pc = "afa"
          /\ call'[c] # call[c])
         => /\ (~call[c].force /\ TokenLive(tokens_file, now))
                 => /\ call'[c].g.n_profile = 1
                    /\ call'[c].g.probe = "profile"
                         => /\ call'[c].pc = "auth_return"
                            /\ call'[c].ret
                                 = RetToken(Val(tokens_file).access_token)
                            /\ UNCHANGED <<listeners, tokens_file>>
            /\ call[c].force => call'[c].ret.kind # "token"]_vars

\* the steps of authenticate_fully_automated between the start of the
\* listener and the end of the finally clause
InFlow(c) == call[c].pc \in {"afa_browser", "afa_wait", "afa_finally"}

\* C13: a listener runs only while a call of authenticate_fully_automated
\* is between the listener's start and the end of its finally clause; every
\* path of the call from there (signal, timeout, exception of the browser)
\* goes through the finally clause, which leaves no listener running and
\* passes on the value or exception it was given; a wait that ends without
\* a completion signal gives none.
C13_ListenerStoppedOnEveryExit ==
    [][/\ \A p \in Ports :
            listeners'[p] = "serving" => \E c \in Callers : InFlow(c)'
       /\ \A c \in Callers :
            /\ (InFlow(c) /\ ~InFlow(c)')
                 => /\ call[c].pc = "afa_finally"
                    /\ call'[c].ret = call[c].held
                    /\ \A p \in Ports : listeners'[p] = "free"
            /\ (call[c].pc = "afa_wait" /\ call'[c] # call[c]
                    /\ ~auth_manager.auth_complete)
                 => /\ call'[c].pc = "afa_finally"
                    /\ call'[c].held = RetNone]_vars

C13_Witness ==
    \E c \in Callers :
        /\ call[c].op = "authenticate" /\ call[c].pc = "done"
        /\ call[c].g.flow
        /\ ~auth_manager.auth_complete
        /\ call[c].result.status = "returned"
        /\ call[c].result.token = ""
        /\ \A p \in Ports : listeners[p] = "free"

\* C14: get_token_status starts no listener, flow or exchange, writes no
\* token record and returns a status: "no_tokens" exactly when no record
\* is loaded, "valid" exactly when the loaded record validates, "expired"
\* otherwise.
C14_StatusReadOnly ==
    [][\A c \in Callers :
         (call'[c] # call[c] /\ call'[c].op = "get_token_status")
         => /\ UNCHANGED <<tokens_file, listeners, handler, kc, order_log>>
            /\ call'[c].pc = "done"
            /\ ~call'[c].g.flow
            /\ LET status == call'[c].result.status
               IN  /\ status \in {"no_tokens", "valid", "expired"}
                   /\ status = "no_tokens" <=> IsNone(tokens_file)
                   /\ status = "valid" <=> C10_Validates(call'[c].g)]_vars

C14_Witness ==
    \E c \in Callers :
        /\ call[c].op = "get_token_status" /\ call[c].pc = "done"
        /\ call[c].result.status = "no_tokens"
        /\ IsNone(tokens_file)

\* C15: get_token_status makes no profile probe and leaves the bound token
\* as it was, and a second call right after the first returns the status
\* the first returned.
C15_StatusIdempotentNoProbe ==
    \A c \in Callers :
        (call[c].op = "get_token_status" /\ call[c].pc = "done")
        => /\ call[c].g.n_profile = 0
           /\ call[c].g.prev # "" => call[c].result.status = call[c].g.prev


\* C16: a failure of a write to the order log never leaves place_order as an
\* exception and never changes the outcome: with the log write failing the
\* call returns what the remote behaviour alone decides (a placed order
\* "success", an order seen REJECTED or CANCELLED "placed_but_rejected", a
\* submission error "failed", a returned re-submission "success"), and a
\* placed order is not submitted again.
C16_LogFailureKeepsOutcome ==
    \A c \in Callers :
        (Placed(c) /\ call[c].g.log_failed)
        => /\ call[c].result.status # "raised"
           /\ call[c].g.sub1 = "returned"
                => /\ call[c].g.n_place = 1
                   /\ call[c].g.n_gac <= (IF call[c].g.bound0 THEN 0 ELSE 1)
                   /\ call[c].result.status =
                        IF IsRejectedStatus(call[c].g.lookup)
                        THEN "placed_but_rejected" ELSE "success"
           /\ call[c].g.sub1 = "other_error"
                => call[c].result.status = "failed"
           /\ call[c].g.sub2 = "returned"
                => call[c].result.status = "success"

\* C17: place_order never raises: every finished call has returned an
\* outcome whose status is success, placed_but_rejected, validation_error,
\* authentication_error or failed.
C17_NeverRaises ==
    \A c \in Callers :
        Placed(c)
        => call[c].result.status \in
             {"success", "placed_but_rejected", "validation_error",
              "authentication_error", "failed"}


\* the log line a finished call is expected to have appended
C18_Matches(c, entry) ==
    LET status == call[c].result.status
        order_id == IF status = "failed" THEN call[c].g.placed_id
                    ELSE call[c].result.order_id
    IN  /\ status = "success" => entry.kind = "SUCCESS"
        /\ status = "placed_but_rejected" => entry.kind = "PLACED_BUT_REJECTED"
        /\ status = "failed" => entry.kind \in {"REJECTED", "ERROR"}
        /\ entry.type_ = call[c].req.transaction_type
        /\ entry.stock = call[c].req.tradingsymbol
        /\ entry.quantity = call[c].req.quantity.v
        /\ entry.order_id = order_id

\* C18: a place_order call that ends in success, placed_but_rejected or
\* failed has appended exactly one line to the order log, of the matching
\* kind and with the call's side, symbol, quantity and order id if it has
\* one; a call that ends in validation_error or authentication_error has
\* appended nothing; a step changes the log only by appending one line.
C18_OneMatchingLogEntry ==
    /\ [](\A c \in Callers :
            Placed(c)
            => /\ call[c].result.status \in
                    {"success", "placed_but_rejected", "failed"}
                 => /\ Len(call[c].g.logged) = 1
                    /\ C18_Matches(c, call[c].g.logged[1])
                    /\ order_log # <<>>
                    /\ order_log[Len(order_log)] = call[c].g.logged[1]
               /\ call[c].result.status \in
                    {"validation_error", "authentication_error"}
                 => call[c].g.logged = <<>>)
    /\ [][\/ order_log' = order_log
          \/ \E entry \in {order_log'[Len(order_log')]} :
                order_log' = Append(order_log, entry)]_vars


\* the texts a completed save_tokens leaves in the file
C19_WholeRecords ==
    {json_dump(TokenRecord(access_token, refresh_token, expires_at,
                           generated_at)) :
        access_token \in StoreTexts, refresh_token \in {NONE, Some(<<"a">>)},
        expires_at \in {NONE, Some(isoformat(ValidityHours)),
                        Some(isoformat(2 * ValidityHours))},
        generated_at \in {isoformat(0), isoformat(ValidityHours)}}

\* C19: load_tokens right after a save_tokens that returned gives a record
\* with the access_token and refresh_token that were saved, and nothing of
\* the record the file held before; on a missing file and on a file that
\* does not hold a whole record it returns None, and it never raises.
C19_RoundTrip ==
    \A c \in Callers :
        (call[c].op = "load_tokens" /\ call[c].pc = "done")
        => /\ call[c].ret.kind # "raise"
           /\ ~IsNone(call[c].g.saved)
                => /\ ~IsNone(call[c].g.tokens)
                   /\ Val(call[c].g.tokens).access_token
                        = Val(call[c].g.saved).access_token
                   /\ Val(call[c].g.tokens).refresh_token
                        = Val(call[c].g.saved).refresh_token
                   /\ call[c].g.tokens = call[c].g.saved
           /\ (IsNone(tokens_file) \/ Val(tokens_file) \notin C19_WholeRecords)
                => IsNone(call[c].g.tokens)

\* a record with a quote in its token replaced an earlier record and was
\* read back
C19_Witness ==
    \E c \in Callers :
        /\ call[c].op = "load_tokens" /\ call[c].pc = "done"
        /\ ~IsNone(call[c].g.saved)
        /\ ~IsNone(call[c].g.over)
        /\ Val(call[c].g.over).access_token
             # Val(call[c].g.saved).access_token
        /\ ~IsNone(Val(call[c].g.over).refresh_token)
        /\ IsNone(Val(call[c].g.saved).refresh_token)
        /\ QUOTE \in {Val(call[c].g.saved).access_token[i] :
                        i \in 1..Len(Val(call[c].g.saved).access_token)}
        /\ call[c].g.tokens = call[c].g.saved


\* the value of the redirect_url parameter of a login URL
C20_RedirectParam(url) == SubSeq(url, 4, Len(url))

\* a URL with a scheme and a host
C20_ValidUrl(text) ==
    /\ Len(text) >= 2
    /\ text[1] \in {"http://", "https://"}
    /\ text[2] \notin {"", "None"}

\* C20: before, during and after an automated login, and in the manual
\* flow, get_login_url returns a URL whose api_key parameter is the
\* configured key and whose redirect_url parameter is a well-formed URL,
\* never empty and never the text "None".
C20_LoginUrlWellFormed ==
    \A c \in Callers :
        (call[c].op \in {"get_login_url", "manual_get_login_url"}
            /\ call[c].pc = "done")
        => /\ Len(call[c].result.url) >= 3
           /\ call[c].result.url[2] = auth_manager.config.api_key
           /\ C20_RedirectParam(call[c].result.url) # <<>>
           /\ C20_RedirectParam(call[c].result.url) # <<"None">>
           /\ C20_ValidUrl(C20_RedirectParam(call[c].result.url))


\* the get_positions calls that are over
Fetched(c) == call[c].op = "get_positions" /\ call[c].pc = "done"

\* C21: get_positions always returns text and never raises; with no bound
\* client it first asks for a client with auto_authenticate and returns the
\* authentication-failure message, with no remote positions call, when that
\* fails; it re-authenticates after a positions error at most once and only
\* for an authentication-classified error, and calls positions at most
\* twice; an answer with no net holding gives "No positions found." and any
\* other answer one line per holding.
C21_PositionsAlwaysText ==
    \A c \in Callers :
        /\ call[c].op = "get_positions"
             => /\ call[c].g.n_positions <= 2
                /\ call[c].g.n_gac <= (IF call[c].g.bound0 THEN 1 ELSE 2)
                /\ call[c].g.n_positions = 2 => call[c].g.sub1 = "auth_error"
                /\ (~call[c].g.bound0 /\ call[c].g.n_positions > 0)
                     => call[c].g.n_gac >= 1
        /\ Fetched(c)
             => /\ call[c].result.text # <<>>
                /\ call[c].ret.kind # "raise"
                /\ (~call[c].g.bound0 /\ call[c].g.n_positions = 0)
                     => /\ call[c].g.n_gac = 1
                        /\ call[c].result.status = "Automatic authentication failed"
                /\ call[c].result.status = "positions"
                     => IF IsNone(call[c].g.answer) \/ Val(call[c].g.answer) = <<>>
                        THEN call[c].result.text = <<"No positions found.">>
                        ELSE /\ Len(call[c].result.text) = Len(Val(call[c].g.answer))
                             /\ \A i \in 1..Len(call[c].result.text) :
                                  call[c].result.text[i][2]
                                    = Val(call[c].g.answer)[i].tradingsymbol

\* a retried positions call that found no holding
C21_Witness ==
    \E c \in Callers :
        /\ Fetched(c)
        /\ call[c].g.sub1 = "auth_error"
        /\ call[c].g.sub2 = "returned"
        /\ call[c].g.n_positions = 2
        /\ call[c].g.answer = Some(<<>>)
        /\ call[c].result.text = <<"No positions found.">>


\* the value of a credential: the environment's when it has one, else the
\* one of a readable config record
C22_Available(env, file, field) ==
    IF Truthy(env[field]) THEN env[field]
    ELSE IF ~IsNone(file) /\ Val(file).json THEN Val(file)[field]
    ELSE NONE

\* C22: constructing the session manager succeeds exactly when api_key and
\* api_secret are both available from the environment or, failing that,
\* from the config record; the environment's api_key is the one kept; a
\* failed construction raises before any remote call and leaves no manager;
\* with no redirect URL configured the localhost callback URL is used.
C22_ConstructionIffCredentials ==
    \A c \in Callers :
        (call[c].op \in {"FullyAutomatedKiteAuth", "UnifiedAuthManager"}
            /\ call[c].pc = "done")
        => LET env == Val(call[c].g.env)
               file == call[c].g.config_file
               api_key == C22_Available(env, file, "api_key")
               api_secret == C22_Available(env, file, "api_secret")
           IN  /\ call[c].ret.kind # "raise"
                    <=> (Truthy(api_key) /\ Truthy(api_secret))
               /\ call[c].ret.kind = "raise" => NothingDone(call[c].g)
               /\ call[c].ret.kind # "raise"
                    => /\ auth_manager.config.api_key = Val(api_key)
                       /\ IsNone(auth_manager.config.original_redirect_url)
                            => auth_manager.config.redirect_url = DefaultRedirect


\* C23: buy_stock, sell_stock and show_portfolio call place_order or
\* get_positions only in a call in which get_token_status reported "valid";
\* when it reported anything else they answer with the authentication
\* response, and nothing is submitted, fetched, authenticated or logged.
C23_ToolsGated ==
    \A c \in Callers :
        call[c].g.tool # ""
        => /\ (call[c].g.inner # ""
                 \/ call[c].op \in {"place_order", "get_positions"}
                 \/ ~NothingDone(call[c].g)
                 \/ call[c].g.n_positions > 0)
                => call[c].g.gate = "valid"
           /\ call[c].g.gate # "valid"
                => /\ call[c].pc = "done"
                   /\ call[c].op = call[c].g.tool
                   /\ call[c].result.status = "authentication_response"
                   /\ NothingDone(call[c].g)

\* a tool turned away with no token record, and one let through
C23_Witness ==
    \E c \in Callers :
        /\ call[c].g.tool = "buy_stock"
        /\ call[c].g.gate = "valid"
        /\ call[c].g.inner = "place_order"
        /\ call[c].op = "buy_stock" /\ call[c].pc = "done"
        /\ call[c].g.n_place = 1
        /\ call[c].result.status = "Order Successful"


\* a /callback request with a well-formed request_token that does not
\* report a successful login
C24_Refused(r) ==
    /\ r.path = "/callback"
    /\ ~IsNone(r.request_token)
    /\ isalnum(Val(r.request_token))
    /\ Len(Val(r.request_token)) >= 10
    /\ ~(r.action = Some("login") /\ r.status = Some("success"))

\* C24: when the listener has answered a /callback request whose
\* request_token is well formed and whose action and status are not "login"
\* and "success", the answer is 400 and the handler has set the completion
\* signal with the success flag false, so that the attempt waiting on the
\* signal is not left waiting for its timeout.
C24_RefusedCallbackSignals ==
    \A p \in Ports :
        (handler[p].pc = "idle" /\ C24_Refused(handler[p].req))
        => /\ handler[p].response = 400
           /\ handler[p].sets = 1
           /\ auth_manager.auth_complete
           /\ \A c \in Callers : call[c].pc # "afa_wait"
                                   \/ ~auth_manager.auth_success


\* C25: in every interleaving of the handler's thread and the waiting
\* thread, an attempt that was woken by a completion signal of its own
\* after its token exchange succeeded sees the success flag set and
\* returns the access token just persisted, not None.
C25_SuccessSeenByWaiter ==
    \A c \in Callers :
        (call[c].pc = "afa_finally"
            /\ call[c].g.flow_exchanged /\ ~call[c].g.stale_signal)
        => /\ call[c].held.kind = "token"
           /\ ~IsNone(tokens_file)
           /\ call[c].held.token = Val(tokens_file).access_token


\* C26: over any sequence of login attempts on one session manager, a
\* forced attempt is released only by a completion signal raised during
\* that attempt, and it returns a token only if a token exchange
\* succeeded during that attempt: no earlier attempt decides it.
C26_AttemptDecidedByItself ==
    \A c \in Callers :
        (call[c].pc = "afa_finally" /\ call[c].force)
        => /\ call[c].held.kind = "token" => call[c].g.flow_exchanged
           /\ call[c].held.kind = "token" => ~call[c].g.stale_signal


\* C27: a place_order outcome "success" with an order id carries the status
\* the order list showed for that id; its order_status is "PENDING" only when the
\* lookup raised or did not find the order; and a lookup that raised does
\* not make the outcome of a completed submission "failed" or
\* "authentication_error".
C27_SuccessCarriesObservedStatus ==
    \A c \in Callers :
        (Placed(c) /\ ~IsNone(call[c].result.order_id))
        => /\ call[c].result.status = "success"
                => /\ call[c].g.lookup \notin {"", "failed", "missing"}
                        => call[c].result.order_status = call[c].g.lookup
                   /\ call[c].result.order_status = "PENDING"
                        => call[c].g.lookup \in {"failed", "missing"}
           /\ (call[c].g.lookup = "failed" /\ ~call[c].g.log_failed)
                => call[c].result.status
                     \notin {"failed", "authentication_error"}


\* C28: a valid order placed with no bound client asks for a client with
\* auto_authenticate once before any submission; when that raises, the
\* call ends in the same step with status "authentication_error", having
\* made no submission and written no log line, and the client stays
\* unbound.
C28_EnsureBeforeSubmit ==
    /\ [](\A c \in Callers :
            (call[c].op = "place_order" /\ ~call[c].g.bound0
                /\ call[c].pc \in {"po_ensured", "po_submit"})
            => call[c].g.n_gac = 1 /\ call[c].g.n_place = 0)
    /\ [][\A c \in Callers :
            (call[c].pc = "po_ensured" /\ call[c].ret.kind = "raise"
                /\ call'[c] # call[c])
            => /\ call'[c].pc = "done"
               /\ call'[c].result.status = "authentication_error"
               /\ call'[c].g.n_place = 0
               /\ call'[c].g.n_log = 0
               /\ order_log' = order_log
               /\ ~kc']_vars

C28_Witness ==
    \E c \in Callers :
        /\ Placed(c) /\ ~call[c].g.bound0
        /\ call[c].result.status = "authentication_error"
        /\ call[c].g.n_gac = 1 /\ call[c].g.n_place = 0
        /\ call[c].g.n_log = 0
        /\ ~kc


\* C29: when place_order or get_positions ends with an authentication
\* failure after a remote call raised an authentication-classified error,
\* the order engine holds no bound client.
C29_AuthFailureUnbinds ==
    \A c \in Callers :
        (/\ call[c].op \in {"place_order", "get_positions"}
         /\ call[c].pc = "done"
         /\ call[c].g.sub1 = "auth_error"
         /\ call[c].result.status \in {"authentication_error",
                                       "Automatic re-authentication failed"})
        => ~kc


\* C30: the token bound to the shared client changes only in a step of a
\* successful exchange_request_token, of a get_authenticated_client that
\* returns a client, or of an is_token_valid that answers True:
\* get_token_status, an is_token_valid that answers False and get_login_url
\* leave it as it was.
C30_BoundTokenWriters ==
    [][auth_manager'.kc_token # auth_manager.kc_token
       => \/ \E p \in Ports :
               /\ handler[p].pc = "exchange"
               /\ handler'[p].pc = "signal" /\ handler'[p].session = "token"
          \/ \E c \in Callers :
               /\ call[c].pc \in {"gac", "gac_flow"}
               /\ call'[c].ret = RetClient
          \/ \E c \in Callers :
               /\ call'[c] # call[c]
               /\ call'[c].op = "is_token_valid"
               /\ call'[c].result.status = "True"]_vars


\* C31: exchange_request_token returns true exactly when generate_session
\* gave a non-empty access token; it then has persisted a record with an
\* access token, expiring ValidityHours after the exchange, and bound the
\* client to that token; when generate_session raised or gave no access
\* token, the record and the bound token are as they were.
C31_ExchangeReturnsTrueIffToken ==
    [][\A p \in Ports :
         (handler[p].pc = "exchange" /\ handler'[p] # handler[p])
         => LET h == handler'[p]
                returns_true == h.pc = "signal"
            IN  /\ returns_true <=> h.session = "token"
                /\ returns_true
                     => /\ ~IsNone(tokens_file')
                        /\ Val(tokens_file').access_token # ""
                        /\ Val(tokens_file').expires_at = Some(ExpiresAt(now))
                        /\ auth_manager'.kc_token
                             = Some(Val(tokens_file').access_token)
                /\ h.session \in {"empty", "raised"}
                     => /\ h.returned = Some(FALSE)
                        /\ tokens_file' = tokens_file
                        /\ auth_manager'.kc_token = auth_manager.kc_token]_vars


\* C32: while the record written by an authenticate_with_request_token that
\* returned True is the one on disk, its access_token is the non-empty
\* string generate_session returned and its expires_at is set, and it
\* validates with is_token_valid whenever the remote accepts the token and
\* the expiry has not passed.
C32_ManualRecordValidates ==
    \A c \in Callers :
        (/\ call[c].op = "authenticate_with_request_token"
         /\ call[c].pc = "done"
         /\ call[c].result.status = "True"
         /\ tokens_file = call[c].g.saved)
        => /\ call[c].result.token # ""
           /\ Val(tokens_file).access_token = call[c].result.token
           /\ ~IsNone(Val(tokens_file).expires_at)
           /\ is_token_valid(tokens_file, now,
                RemoteProfile(Val(tokens_file).access_token, "profile"))


C34_OneListenerAtATime ==
    /\ Cardinality({p \in Ports : listeners[p] = "serving"}) <= 1
    /\ (\E p \in Ports : listeners[p] = "serving")
         => \E c \in Callers : InFlow(c)


\* what C35 gives for the texts of SubmissionErrors, in their order: the
\* error code, the error message, the rejection reason and the log kind
C35_Expected ==
    << [error_code |-> Some(<<"I">>), error_message |-> Some(<<"m">>),
        rejection_reason |-> NONE, kind |-> "REJECTED"],
       [error_code |-> Some(<<"e">>), error_message |-> Some(<<"x">>),
        rejection_reason |-> NONE, kind |-> "REJECTED"],
       [error_code |-> Some(<<"I">>), error_message |-> Some(<<"m">>),
        rejection_reason |-> Some(<<"r">>), kind |-> "REJECTED"],
       [error_code |-> NONE, error_message |-> Some(<<"m">>),
        rejection_reason |-> Some(<<"r">>), kind |-> "REJECTED"],
       [error_code |-> NONE, error_message |-> Some(<<"m">>),
        rejection_reason |-> NONE, kind |-> "ERROR"],
       [error_code |-> NONE, error_message |-> Some(<<"{", "b", "a", "d", "}">>),
        rejection_reason |-> NONE, kind |-> "ERROR"],
       [error_code |-> NONE, error_message |-> Some(ERR_NET),
        rejection_reason |-> NONE, kind |-> "ERROR"] >>

\* C35: a place_order whose submission raised an error that is not
\* authentication-classified returns "failed" after one submission and no
\* re-authentication, with the error code, message and rejection reason
\* read from the error's JSON object (or the raw text as the message when
\* it is none), and appends one log line, REJECTED when a code or a
\* rejection reason was read and ERROR otherwise.
C35_FailedOutcome ==
    \A c \in Callers :
        (Placed(c) /\ call[c].g.sub1 = "other_error")
        => \E i \in DOMAIN SubmissionErrors :
             LET r == call[c].result
                 x == C35_Expected[i]
             IN  /\ r.error = SubmissionErrors[i]
                 /\ r.status = "failed"
                 /\ call[c].g.n_place = 1 /\ call[c].g.n_gac = 0
                 /\ r.error_code = x.error_code
                 /\ r.error_message = x.error_message
                 /\ r.rejection_reason = x.rejection_reason
                 /\ Kinds(call[c].g.logged) = <<x.kind>>


\* C36: in one place_order call at most one remote place_order returns:
\* once a submission has returned, the call makes no further submission
\* and no re-authentication.
C36_NoDuplicateOrder ==
    \A c \in Callers :
        (call[c].op = "place_order" /\ call[c].g.sub1 = "returned")
        => /\ call[c].g.n_place = 1
           /\ call[c].g.sub2 # "returned"
           /\ call[c].g.n_gac = (IF call[c].g.bound0 THEN 0 ELSE 1)

\* a place_order call that asked for the client while the persisted record
\* held a token the remote accepts, and whose last submission the remote
\* accepted
C37_RecordAccepted(c) ==
    /\ call[c].op = "place_order" /\ call[c].pc = "done"
    /\ call[c].g.n_gac >= 1
    /\ TokenLive(tokens_file, now)
    /\ \/ call[c].g.sub1 = "returned"
       \/ call[c].g.sub1 = "auth_error" /\ call[c].g.sub2 = "returned"

\* C37: once a record with a token the remote accepts is persisted, the next
\* place_order with a valid request, whether it starts unbound or with a
\* stale client, rebinds to the token of the record and ends in success or
\* placed_but_rejected when the remote accepts the order.
C37_RecoversFromPersistedRecord ==
    \A c \in Callers :
        C37_RecordAccepted(c)
        => /\ call[c].result.status \in {"success", "placed_but_rejected"}
           /\ kc
           /\ auth_manager.kc_token = Some(Val(tokens_file).access_token)

\* C38: with the callback server reachable, get_kite_login_url and the
\* smart authentication response answer with the login URL of the session
\* manager, made of the configured api_key and the originally configured
\* redirect URL; they answer with a failure only when the callback server
\* is unreachable.
C38_LoginUrlWhenReachable ==
    \A c \in Callers :
        (call[c].op \in LoginTools /\ call[c].pc = "done")
        => /\ call[c].g.gate = "200"
                => /\ call[c].result.status = "login"
                   /\ call[c].result.url
                        = manual_get_login_url(auth_manager.config)
           /\ call[c].result.status # "login" => call[c].g.gate # "200"

\* the ports of the range that bind
FreePorts == {p \in Ports : listeners[p] = "free"}

\* C39: find_available_port gives the lowest port of the range that binds
\* and nothing when none does; a login that gets no port, or whose listener
\* cannot bind the port it got, returns None in the same step, with no
\* browser opened and every listener and the manager's server as they
\* were; a login that goes on serves on the lowest port that was free.
C39_NoPortNoFlow ==
    [][\A c \in Callers :
         (/\ call[c].op = "authenticate" /\ call[c].pc = "afa"
          /\ call'[c] # call[c]
          /\ call'[c].ret.kind \notin {"raise", "token"})
         => /\ find_available_port(listeners) =
                 (IF FreePorts = {} THEN NONE
                  ELSE Some(CHOOSE p \in FreePorts :
                              \A q \in Ports : q < p => listeners[q] # "free"))
            /\ IF call'[c].pc = "afa_browser"
               THEN /\ FreePorts # {}
                    /\ auth_manager'.server = find_available_port(listeners)
                    /\ \A p \in Ports :
                         listeners'[p] =
                            IF Some(p) = auth_manager'.server
                            THEN "serving" ELSE listeners[p]
                    /\ \A q \in Ports :
                         q < Val(auth_manager'.server) => listeners[q] # "free"
               ELSE /\ call'[c].pc = "auth_return"
                    /\ call'[c].ret = RetNone
                    /\ ~call'[c].g.flow
                    /\ listeners' = listeners
                    /\ auth_manager'.server = auth_manager.server]_vars

C39_Witness ==
    \E c \in Callers :
        /\ call[c].op = "authenticate" /\ call[c].pc = "auth_return"
        /\ call[c].ret = RetNone /\ ~call[c].g.flow
        /\ FreePorts = {}
        /\ \A p \in Ports : listeners[p] # "serving"

====
